---- MODULE Spec2Model ----
(***************************************************************************)
(* Model of compute_normalized_likelihood.cpp (HTN goal recognition):      *)
(* the ordering-constraint resolver, the three stage scorers and the       *)
(* likelihood combiner.                                                    *)
(*                                                                         *)
(* Conventions.                                                            *)
(*  - C++ arrays are functions over 0..n-1, so that task, action, method   *)
(*    and proposition identifiers are the ones of the source; vector<int>  *)
(*    plans are sequences and plan[t] of the source is plan[t+1] here.     *)
(*  - Probabilities are exact rationals <<numerator, denominator>>.  The   *)
(*    source accumulates logProb += log(p) and returns exp(logProb); the   *)
(*    variable logProb holds the rational whose natural logarithm the      *)
(*    source holds, so += log(p) is a multiplication by p and exp() reads  *)
(*    the rational back.  Rounding of double arithmetic is not modelled.   *)
(***************************************************************************)
EXTENDS Integers, Sequences, FiniteSets, TLC

VARIABLES
    pc,                 \* control point inside the function that is executing
    htn,                \* the grounded Model (htn->read), read-only
    \* extractOrderingConstraints
    methodFilter,       \* parameter methodFilter
    orderings,          \* local set<pair<int,int>> orderings
    changed,            \* local flag of the closure loop
    \* computeStage1Probability
    taskMethodCounts,   \* parameter map<string,int>
    it,                 \* number of map entries the range-for has visited
    numCompoundTasks,   \* local counter
    stage1_prob,        \* returned value
    \* computeStage2Probability
    plan,               \* parameter plan (also of computeStage3Probability)
    orderingConstraints,\* parameter orderingConstraints (main: the local it passes)
    currentState,       \* local unordered_set<int>
    executed,           \* local set<int>
    remaining,          \* local set<int>
    t,                  \* loop index (0-based)
    logProb,            \* local logProb of Stage I and II (as the rational exp(logProb))
    stage2_prob,        \* returned value
    \* computeStage3Probability
    observations,       \* parameter observations (main: the local it passes)
    fullObservability,  \* parameter fullObservability (main: argv[6])
    pDet,               \* parameter pDet (main: argv[7])
    totalProb,          \* local totalProb of the partial-observability branch
    prefixLen,          \* loop index t of the partial-observability branch
    dp,                 \* table dp of the last alignmentLikelihoodPartialObs call
    stage3_prob,        \* returned value
    \* main
    mainPc,             \* control point of main ("none": main is not running)
    obsLog,             \* content of the observation plan log
    baseLog,            \* content of the baseline plan log
    numObservations,    \* argv[5], then the number of observations used
    obsPlan,            \* resolved observation plan
    basePlan,           \* resolved baseline plan
    usedMethodIds,      \* method identifiers collected from the traces
    obsTaskMethodCounts,
    baseTaskMethodCounts,
    scores,             \* obs_stage1, obs_stage2, obs_stage3, numerator, base_stage1,
                        \* base_stage2, denominator, normalized_likelihood
    \* the posterior normalizers
    normalizer,         \* the normalizer that runs ("none": no normalizer runs)
    results,            \* the (hypothesis, likelihood) entries it has read
    posteriors,         \* the posterior table it has written
    emitted,            \* whether it has written a posterior table
    exitStatus,         \* its exit status (-1: it has not ended)
    \* compute_monroe
    monroePc,           \* control point of main ("none": compute_monroe is not running)
    curr_iteration,     \* global curr_iteration
    k_iterations,       \* argument k_iterations_str as a number
    curr_hypothesis,    \* global curr_hypothesis
    domain_file,        \* hypotheses whose method is in the file named by domain_file
    iteration_likelihoods, \* global map<string, double>
    iteration_order,    \* global vector<string>
    overall_likelihoods,\* lines appended to the overall likelihood file
    discovery,          \* the discovery-order section written by write_final_results
    \* compute_posterior_partial.sh
    shPc,               \* control point of the script ("none": it is not running)
    iteration,          \* loop variable iteration
    K_ITERATIONS,       \* argument K_ITERATIONS
    SELECTED_HYPOTHESIS,\* shell variable SELECTED_HYPOTHESIS
    LIKELIHOODS_FILE,   \* lines of the file $LIKELIHOODS_FILE
    toolStatus,         \* per iteration, how the baseline planner and
                        \* compute_normalized_likelihood ended
    \* parsePlanFromLog and parseDecompositionTreeFromLog
    observationLogFile, \* lines of the file named by observationLogFile
    baselineLogFile,    \* lines of the file named by baselineLogFile
    parsePc,            \* the parsing function that runs ("none": neither runs)
    lineNo,             \* number of lines getline has returned
    inPlanSection,      \* local flag of parsePlanFromLog
    inDecompTree,       \* local flag of parseDecompositionTreeFromLog
    planStrings,        \* local vector plan of parsePlanFromLog
    treeCounts          \* local map taskMethodCounts of parseDecompositionTreeFromLog

ordVars  == <<methodFilter, orderings, changed>>
s1Vars   == <<taskMethodCounts, it, numCompoundTasks, stage1_prob>>
s2Vars   == <<currentState, executed, remaining, t, stage2_prob>>
mainVars == <<mainPc, obsLog, baseLog, numObservations, obsPlan, basePlan,
              usedMethodIds, obsTaskMethodCounts, baseTaskMethodCounts, scores>>

s3Loc    == <<totalProb, prefixLen, dp>>

normVars   == <<normalizer, results, posteriors, emitted, exitStatus>>
monroeVars == <<monroePc, curr_iteration, k_iterations, curr_hypothesis, domain_file,
                iteration_likelihoods, iteration_order, overall_likelihoods, discovery>>
shVars     == <<shPc, iteration, K_ITERATIONS, SELECTED_HYPOTHESIS, LIKELIHOODS_FILE,
                toolStatus>>
postVars   == <<normVars, monroeVars, shVars>>

parseVars  == <<observationLogFile, baselineLogFile, parsePc, lineNo, inPlanSection,
                inDecompTree, planStrings, treeCounts>>

\* the variables of compute_normalized_likelihood
hgrVars == <<pc, htn, ordVars, s1Vars, plan, orderingConstraints, s2Vars, logProb,
             observations, fullObservability, pDet, s3Loc, stage3_prob, mainVars,
             parseVars>>

vars == <<hgrVars, postVars>>

(***************************************************************************)
(* Bounds                                                                  *)
(***************************************************************************)
FreeSubLen == 3         \* number of subtasks of the model's free method
MaxPlanLen == 3         \* longest plan
MaxEff == 2             \* longest delete or add list of the model's free action
ApplyPlanLen == 2       \* longest plan of the runs that exercise applyAction
MaxCount == 3           \* largest method count in a Stage I input map
MaxObsLen == 3          \* longest observation sequence of a Stage III run
MainPlanLen == 2        \* most plan tokens in a log read by main
MainDecompLen == 1      \* most decomposition records in a log read by main

(***************************************************************************)
(* Generic helpers                                                         *)
(***************************************************************************)
\* a C++ array written as a tuple: index i of the array is element i+1 of the tuple
Arr(s) == [i \in 0..(Len(s) - 1) |-> s[i + 1]]

Range(f) == {f[x] : x \in DOMAIN f}

\* all sequences over S of length at most n
SeqsUpTo(S, n) == UNION { [1..k -> S] : k \in 0..n }

\* exact rationals <<numerator, denominator>>, denominator > 0, in lowest terms
RECURSIVE GCD(_, _)
GCD(a, b) == IF b = 0 THEN a ELSE GCD(b, a % b)

Rat(n, d) == IF n = 0 THEN <<0, 1>> ELSE << n \div GCD(n, d), d \div GCD(n, d) >>

RMul(x, y) == Rat(x[1] * y[1], x[2] * y[2])

ROne == <<1, 1>>

RZero == <<0, 1>>

\* the detection probability main passes when argv[7] is absent: 0.9
DefaultPDet == <<9, 10>>

(***************************************************************************)
(* The grounded model.  Tasks 0..numActions-1 are primitive actions, tasks *)
(* numActions..numTasks-1 are compound.  Methods 0..4 are fixed; method 5  *)
(* is free: its subtasks and ordering list are inputs, and so are the      *)
(* initial state and the delete and add lists of action 2.                 *)
(***************************************************************************)
Props == {0, 1}

ModelWith(freeSub, freeOrd, s0, del2, add2) ==
    [ numTasks       |-> 5,
      numActions     |-> 3,
      numMethods     |-> 6,
      taskNames      |-> Arr(<<"a0", "a1", "a2", "t3", "t4">>),
      methodNames    |-> Arr(<<"m0", "m1", "m2", "m3", "m4", "m5">>),
      decomposedTask |-> Arr(<<3, 3, 4, 4, 4, 4>>),
      subTasks       |-> Arr(<< Arr(<<0, 1>>),        \* m0: a0 before a1
                                Arr(<<1, 2>>),        \* m1: a1 before a2
                                Arr(<<0, 1, 0>>),     \* m2: a0, a1, a0 in sequence
                                Arr(<<3, 2>>),        \* m3: compound t3 before a2
                                Arr(<<2, 0>>),        \* m4: a2 before a0
                                freeSub >>),
      ordering       |-> Arr(<< Arr(<<0, 1>>),
                                Arr(<<0, 1>>),
                                Arr(<<0, 1, 1, 2>>),
                                Arr(<<0, 1>>),
                                Arr(<<0, 1>>),
                                freeOrd >>),
      numOrderings   |-> Arr(<<2, 2, 4, 2, 2, Cardinality(DOMAIN freeOrd)>>),
      precLists      |-> Arr(<< Arr(<<>>),  Arr(<<0>>), Arr(<<>>) >>),
      numPrecs       |-> Arr(<<0, 1, 0>>),
      addLists       |-> Arr(<< Arr(<<0>>), Arr(<<1>>), add2 >>),
      numAdds        |-> Arr(<<1, 1, Cardinality(DOMAIN add2)>>),
      delLists       |-> Arr(<< Arr(<<>>),  Arr(<<0>>), del2 >>),
      numDels        |-> Arr(<<0, 1, Cardinality(DOMAIN del2)>>),
      s0List         |-> s0,
      s0Size         |-> Cardinality(DOMAIN s0) ]

\* subtask lists of the free method: every list of FreeSubLen task identifiers
FreeSubTasks == [0..(FreeSubLen - 1) -> 0..4]

\* ordering lists of the free method (flat list of index pairs before, after)
FreeOrderings ==
    { Arr(<<>>), Arr(<<0, 1>>), Arr(<<1, 0>>), Arr(<<0, 1, 1, 2>>),
      Arr(<<0, 2, 2, 1>>), Arr(<<0, 1, 1, 0>>) }

\* initial-state lists
S0Lists == { Arr(<<>>), Arr(<<0>>), Arr(<<1>>), Arr(<<0, 1>>) }

\* delete and add lists of action 2: every list of at most MaxEff propositions
EffLists == { Arr(s) : s \in SeqsUpTo(Props, MaxEff) }

DefaultSub == Arr(<<4, 0, 1>>)
DefaultOrd == Arr(<<0, 1, 1, 2>>)
DefaultDel == Arr(<<1, 0>>)
DefaultAdd == Arr(<<1>>)

OrdModels ==
    { ModelWith(fs, fo, Arr(<<>>), DefaultDel, DefaultAdd) :
        fs \in FreeSubTasks, fo \in FreeOrderings }

Methods(h) == 0..(h.numMethods - 1)

\* a methodFilter argument: nullptr or a pointer to a set of method identifiers
NoFilter == [isNull |-> TRUE, ids |-> {}]
Filter(S) == [isNull |-> FALSE, ids |-> S]

(***************************************************************************)
(* extractOrderingConstraints                                              *)
(***************************************************************************)
\* the pairs that the inner loop (i += 2) inserts for method m
MethodPairs(h, m) ==
    { << h.subTasks[m][h.ordering[m][i]], h.subTasks[m][h.ordering[m][i + 1]] >> :
        i \in { j \in 0..(h.numOrderings[m] - 1) : j % 2 = 0 } }

\* the methods the outer loop does not skip
Included(h, f) == { m \in Methods(h) : f.isNull \/ m \in f.ids }

\* the set built by the loop over all methods
DeclaredPairs(h, f) == UNION { MethodPairs(h, m) : m \in Included(h, f) }

\* chains joined on the wrong component (p1.second == p2.second)
ChainsWrongJoin(ord) ==
    { << pp[1][1], pp[2][2] >> : pp \in { qq \in ord \X ord : qq[1][2] = qq[2][2] } }

\* the chains (a,b), (b,c) found by the two nested loops over orderings
Chains(ord) ==
    { << pp[1][1], pp[2][2] >> : pp \in { qq \in ord \X ord : qq[1][2] = qq[2][1] } }

\* newPairs at the end of one pass of the closure loop over orderings
NewPairs(ord) == Chains(ord) \ ord

\* a pass that forgets to raise the flag
PassChangedNever(newPairs) == FALSE

\* the flag of a pass that is set whatever the pass found
PassChangedAlways(newPairs) == TRUE

\* lines 295-298: changed is set when a pass finds a pair that is not yet in orderings
PassChanged(newPairs) == newPairs # {}

\* the whole closure loop: passes are repeated until one adds no pair
RECURSIVE ClosureLoop(_)
ClosureLoop(ord) ==
    IF NewPairs(ord) = {} THEN ord ELSE ClosureLoop(ord \cup NewPairs(ord))

\* the value returned by extractOrderingConstraints(htn, methodFilter)
ExtractOrderingConstraints(h, f) == ClosureLoop(DeclaredPairs(h, f))

\* lines 268-283: the loop over the methods fills orderings
OrdCollect ==
    /\ pc = "ord_collect"
    /\ orderings' = DeclaredPairs(htn, methodFilter)
    /\ changed' = TRUE
    /\ pc' = "ord_closure"
    /\ UNCHANGED <<htn, methodFilter, s1Vars, plan, orderingConstraints, s2Vars, logProb,
                   observations, fullObservability, postVars, parseVars, pDet, s3Loc, stage3_prob, mainVars>>

\* lines 287-306: one iteration of while (changed)
ClosurePass ==
    /\ pc = "ord_closure"
    /\ changed
    /\ orderings' = orderings \cup NewPairs(orderings)
    /\ changed' = PassChanged(NewPairs(orderings))
    /\ UNCHANGED <<pc, htn, methodFilter, s1Vars, plan, orderingConstraints, s2Vars,
                   logProb, observations, fullObservability, postVars, parseVars, pDet, s3Loc, stage3_prob, mainVars>>

\* line 308: the loop has ended, orderings is returned
OrdReturn ==
    /\ pc = "ord_closure"
    /\ ~changed
    /\ pc' = "ord_done"
    /\ UNCHANGED <<htn, ordVars, s1Vars, plan, orderingConstraints, s2Vars, logProb,
                   observations, fullObservability, postVars, parseVars, pDet, s3Loc, stage3_prob, mainVars>>

\* values of the locals of a function that is not running
OrdIdle == methodFilter = NoFilter /\ orderings = {} /\ changed = FALSE

S1Idle ==
    /\ taskMethodCounts = <<>> /\ it = 0 /\ numCompoundTasks = 0 /\ stage1_prob = ROne

S2Idle ==
    /\ currentState = {} /\ executed = {} /\ remaining = {} /\ t = 0
    /\ stage2_prob = ROne

S3Idle == stage3_prob = ROne /\ totalProb = RZero /\ prefixLen = 0 /\ dp = <<>>

NoScores ==
    [ obs_stage1 |-> ROne, obs_stage2 |-> ROne, obs_stage3 |-> ROne, numerator |-> ROne,
      base_stage1 |-> ROne, base_stage2 |-> ROne, denominator |-> ROne,
      normalized_likelihood |-> ROne ]

EmptyLog == [plan |-> <<>>, decomp |-> <<>>]

NormIdle ==
    /\ normalizer = "none" /\ results = <<>> /\ posteriors = <<>>
    /\ emitted = FALSE /\ exitStatus = -1

MonroeIdle ==
    /\ monroePc = "none" /\ curr_iteration = 1 /\ k_iterations = 0
    /\ curr_hypothesis = "" /\ domain_file = {}
    /\ iteration_likelihoods = <<>> /\ iteration_order = <<>>
    /\ overall_likelihoods = <<>> /\ discovery = <<>>

ShIdle ==
    /\ shPc = "none" /\ iteration = 0 /\ K_ITERATIONS = 0
    /\ SELECTED_HYPOTHESIS = "" /\ LIKELIHOODS_FILE = <<>> /\ toolStatus = <<>>

PostIdle == NormIdle /\ MonroeIdle /\ ShIdle

ParseIdle ==
    /\ observationLogFile = <<>> /\ baselineLogFile = <<>> /\ parsePc = "none"
    /\ lineNo = 0 /\ inPlanSection = FALSE /\ inDecompTree = FALSE
    /\ planStrings = <<>> /\ treeCounts = <<>>

MainIdle ==
    /\ mainPc = "none" /\ obsLog = EmptyLog /\ baseLog = EmptyLog
    /\ numObservations = 0 /\ obsPlan = <<>> /\ basePlan = <<>>
    /\ usedMethodIds = {} /\ obsTaskMethodCounts = <<>> /\ baseTaskMethodCounts = <<>>
    /\ scores = NoScores

InitOrd ==
    /\ pc = "ord_collect"
    /\ htn \in OrdModels
    /\ methodFilter \in {NoFilter} \cup { Filter(S) : S \in SUBSET (0..5) }
    /\ orderings = {}
    /\ changed = FALSE
    /\ S1Idle /\ S2Idle /\ S3Idle /\ MainIdle
    /\ plan = <<>> /\ orderingConstraints = {} /\ logProb = ROne
    /\ observations = <<>> /\ fullObservability = TRUE /\ pDet = DefaultPDet
    /\ PostIdle /\ ParseIdle

NextOrd == OrdCollect \/ ClosurePass \/ OrdReturn

SpecOrd == InitOrd /\ [][NextOrd]_vars

\* the function runs on: a statement that can be executed is executed
SpecOrdLive == InitOrd /\ [][NextOrd]_vars /\ WF_vars(NextOrd)

(***************************************************************************)
(* isApplicable, applyAction, computeStage2Probability                     *)
(***************************************************************************)
\* isApplicable: every precondition of the action is in the state
IsApplicable(h, state, action) ==
    \A i \in 0..(h.numPrecs[action] - 1) : h.precLists[action][i] \in state

\* applyAction, first loop: state.erase(delLists[action][i]) for i, i+1, ...
RECURSIVE EraseDels(_, _, _, _)
EraseDels(h, state, action, i) ==
    IF i < h.numDels[action]
    THEN EraseDels(h, state \ {h.delLists[action][i]}, action, i + 1)
    ELSE state

\* applyAction, second loop: state.insert(addLists[action][i]) for i, i+1, ...
RECURSIVE InsertAdds(_, _, _, _)
InsertAdds(h, state, action, i) ==
    IF i < h.numAdds[action]
    THEN InsertAdds(h, state \cup {h.addLists[action][i]}, action, i + 1)
    ELSE state

\* applyAction with the two loops exchanged
ApplyActionAddFirst(h, state, action) ==
    EraseDels(h, InsertAdds(h, state, action, 0), action, 0)

\* applyAction: the state after the delete loop and then the add loop
ApplyAction(h, state, action) ==
    InsertAdds(h, EraseDels(h, state, action, 0), action, 0)

\* the predecessor test with the pair read backwards
HasUnexecutedPredecessorRev(ord, rem, taskId) ==
    \E o \in ord : o[1] = taskId /\ o[2] \in rem

\* lines 346-352: some pair (x, taskId) has x in remaining
HasUnexecutedPredecessor(ord, rem, taskId) ==
    \E o \in ord : o[2] = taskId /\ o[1] \in rem

\* lines 342-360: availableActions of one step
AvailableActions(h, ord, rem, state) ==
    { taskId \in rem :
        ~HasUnexecutedPredecessor(ord, rem, taskId) /\ IsApplicable(h, state, taskId) }

\* the size of the available set as it is
ApplicableCountUnclamped(avail) == Cardinality(avail)

\* lines 362-363: the size of the available set, 0 replaced by 1
ApplicableCount(avail) ==
    IF Cardinality(avail) = 0 THEN 1 ELSE Cardinality(avail)

\* the set left as it is
RemainingKept(rem, selectedAction) == rem

\* line 376: remaining.erase(selectedAction)
RemainingErase(rem, selectedAction) == rem \ {selectedAction}

\* a run that starts from the empty state
InitialStateEmpty(h) == {}

\* lines 323-326: currentState holds s0List[0..s0Size-1]
InitialState(h) == { h.s0List[i] : i \in 0..(h.s0Size - 1) }

\* lines 322-336: state from s0, remaining from the plan, logProb = 0.0
Stage2Begin ==
    /\ pc = "s2_begin"
    /\ currentState' = InitialState(htn)
    /\ executed' = {}
    /\ remaining' = { plan[k] : k \in { j \in 1..Len(plan) :
                                          plan[j] >= 0 /\ plan[j] < htn.numActions } }
    /\ logProb' = ROne
    /\ t' = 0
    /\ pc' = "s2_loop"
    /\ UNCHANGED <<htn, ordVars, s1Vars, plan, orderingConstraints, stage2_prob,
                   observations, fullObservability, postVars, parseVars, pDet, s3Loc, stage3_prob, mainVars>>

\* lines 338-378: one iteration of the loop over the plan
Stage2Step ==
    /\ pc = "s2_loop"
    /\ t < Len(plan)
    /\ LET selectedAction == plan[t + 1]
           availableActions ==
               AvailableActions(htn, orderingConstraints, remaining, currentState)
           applicableCount == ApplicableCount(availableActions)
       IN  /\ logProb' = RMul(logProb, Rat(1, applicableCount))
           /\ currentState' = ApplyAction(htn, currentState, selectedAction)
           /\ remaining' = RemainingErase(remaining, selectedAction)
           /\ executed' = executed \cup {selectedAction}
    /\ t' = t + 1
    /\ UNCHANGED <<pc, htn, ordVars, s1Vars, plan, orderingConstraints, stage2_prob,
                   observations, fullObservability, postVars, parseVars, pDet, s3Loc, stage3_prob, mainVars>>

\* lines 380-387: stage2_prob = exp(logProb) is returned
Stage2Return ==
    /\ pc = "s2_loop"
    /\ t = Len(plan)
    /\ stage2_prob' = logProb
    /\ pc' = "s2_done"
    /\ UNCHANGED <<htn, ordVars, s1Vars, plan, orderingConstraints, currentState,
                   executed, remaining, t, logProb,
                   observations, fullObservability, postVars, parseVars, pDet, s3Loc, stage3_prob, mainVars>>

\* the models of the Stage II runs: the initial state varies
S2Models ==
    { ModelWith(DefaultSub, DefaultOrd, s0, DefaultDel, DefaultAdd) : s0 \in S0Lists }

Actions(h) == 0..(h.numActions - 1)

InitStage2 ==
    /\ pc = "s2_begin"
    /\ htn \in S2Models
    /\ OrdIdle /\ S1Idle /\ S2Idle /\ S3Idle /\ MainIdle
    /\ plan \in SeqsUpTo(Actions(htn), MaxPlanLen)
    /\ orderingConstraints \in
         { ExtractOrderingConstraints(htn, Filter(S)) : S \in SUBSET Methods(htn) }
    /\ logProb = ROne
    /\ observations = <<>> /\ fullObservability = TRUE /\ pDet = DefaultPDet
    /\ PostIdle /\ ParseIdle

NextStage2 == Stage2Begin \/ Stage2Step \/ Stage2Return

SpecStage2 == InitStage2 /\ [][NextStage2]_vars

\* the models of the runs that exercise applyAction: effects of action 2 vary
ApplyModels ==
    { ModelWith(DefaultSub, DefaultOrd, s0, d, a) :
        s0 \in S0Lists, d \in EffLists, a \in EffLists }

InitApply ==
    /\ pc = "s2_begin"
    /\ htn \in ApplyModels
    /\ OrdIdle /\ S1Idle /\ S2Idle /\ S3Idle /\ MainIdle
    /\ plan \in SeqsUpTo(Actions(htn), ApplyPlanLen)
    /\ orderingConstraints = {}
    /\ logProb = ROne
    /\ observations = <<>> /\ fullObservability = TRUE /\ pDet = DefaultPDet
    /\ PostIdle /\ ParseIdle

SpecApply == InitApply /\ [][NextStage2]_vars

(***************************************************************************)
(* computeStage1Probability                                                *)
(***************************************************************************)
\* the names that occur in models and logs, in the order of std::string's
\* operator< (the iteration order of map<string,int>)
NameOrder == << "<abs>t3", "A1", "T3", "a0", "a1", "a2", "t3", "t4", "zz" >>

KeyRank(n) == CHOOSE k \in 1..Len(NameOrder) : NameOrder[k] = n

\* the key of the entry that the range-for visits after i entries
KeyAt(m, i) ==
    CHOOSE n \in DOMAIN m :
        Cardinality({ x \in DOMAIN m : KeyRank(x) < KeyRank(n) }) = i

\* logProb = log(prob) in place of logProb += log(prob)
Stage1Overwrite(lp, numMethods) == Rat(1, numMethods)

\* lines 240-248: prob = 1.0 / numMethods; logProb += log(prob)
Stage1Accumulate(lp, numMethods) == RMul(lp, Rat(1, numMethods))

\* lines 224-225: logProb = 0.0, numCompoundTasks = 0
Stage1Begin ==
    /\ pc = "s1_begin"
    /\ logProb' = ROne
    /\ numCompoundTasks' = 0
    /\ it' = 0
    /\ pc' = "s1_loop"
    /\ UNCHANGED <<htn, ordVars, taskMethodCounts, stage1_prob, plan, orderingConstraints,
                   s2Vars, observations, fullObservability, postVars, parseVars, pDet, s3Loc, stage3_prob, mainVars>>

\* lines 233-250: one iteration of the loop over the map entries
Stage1Step ==
    /\ pc = "s1_loop"
    /\ it < Cardinality(DOMAIN taskMethodCounts)
    /\ LET taskName == KeyAt(taskMethodCounts, it)
           numMethods == taskMethodCounts[taskName]
       IN  IF numMethods = 0
           THEN UNCHANGED <<logProb, numCompoundTasks>>
           ELSE /\ logProb' = Stage1Accumulate(logProb, numMethods)
                /\ numCompoundTasks' = numCompoundTasks + 1
    /\ it' = it + 1
    /\ UNCHANGED <<pc, htn, ordVars, taskMethodCounts, stage1_prob, plan,
                   orderingConstraints, s2Vars, observations, fullObservability, postVars, parseVars, pDet, s3Loc,
                   stage3_prob, mainVars>>

\* lines 252-260: stage1_prob = exp(logProb) is returned
Stage1Return ==
    /\ pc = "s1_loop"
    /\ it = Cardinality(DOMAIN taskMethodCounts)
    /\ stage1_prob' = logProb
    /\ pc' = "s1_done"
    /\ UNCHANGED <<htn, ordVars, taskMethodCounts, it, numCompoundTasks, plan,
                   orderingConstraints, s2Vars, logProb, observations,
                   fullObservability, postVars, parseVars, pDet, s3Loc, stage3_prob, mainVars>>

\* the keys of the Stage I input maps
S1Names == {"T3", "t3", "t4"}

\* every map from some of these names to a count in 0..MaxCount
S1Maps == UNION { [D -> 0..MaxCount] : D \in SUBSET S1Names }

FixedModel == ModelWith(DefaultSub, DefaultOrd, Arr(<<>>), DefaultDel, DefaultAdd)

InitStage1 ==
    /\ pc = "s1_begin"
    /\ htn = FixedModel
    /\ taskMethodCounts \in S1Maps
    /\ it = 0 /\ numCompoundTasks = 0 /\ stage1_prob = ROne
    /\ OrdIdle /\ S2Idle /\ S3Idle /\ MainIdle
    /\ plan = <<>> /\ orderingConstraints = {} /\ logProb = ROne
    /\ observations = <<>> /\ fullObservability = TRUE /\ pDet = DefaultPDet
    /\ PostIdle /\ ParseIdle

NextStage1 == Stage1Begin \/ Stage1Step \/ Stage1Return

SpecStage1 == InitStage1 /\ [][NextStage1]_vars

(***************************************************************************)
(* computeStage3Probability, full observability                            *)
(***************************************************************************)
Min(a, b) == IF a <= b THEN a ELSE b

\* the prior computed from the number of observations instead of the plan length
ProgressPriorOfT(tt, planLength) == Rat(1, tt + 1)

\* progressPrior: 1.0 / (planLength + 1); the first argument is not used
ProgressPrior(tt, planLength) == Rat(1, planLength + 1)

\* alignmentLikelihoodFullObs: 0 on different sizes or on a mismatch, else 1
AlignmentLikelihoodFullObs(obs, planPrefix) ==
    IF Len(obs) # Len(planPrefix) THEN RZero
    ELSE IF \E i \in 1..Len(obs) : obs[i] # planPrefix[i] THEN RZero
    ELSE ROne

\* lines 456-468: the branch if (fullObservability)
Stage3Full ==
    /\ pc = "s3_begin"
    /\ fullObservability
    /\ LET progress == ProgressPrior(Len(observations), Len(plan))
           planPrefix == SubSeq(plan, 1, Min(Len(observations), Len(plan)))
           alignment == AlignmentLikelihoodFullObs(observations, planPrefix)
       IN  stage3_prob' = RMul(progress, alignment)
    /\ pc' = "s3_done"
    /\ UNCHANGED <<htn, ordVars, s1Vars, plan, orderingConstraints, s2Vars, logProb,
                   observations, fullObservability, postVars, parseVars, pDet, s3Loc, mainVars>>

RAdd(x, y) == Rat(x[1] * y[2] + y[1] * x[2], x[2] * y[2])

\* 1 - pDet
OneMinus(p) == Rat(p[2] - p[1], p[2])

\* the cell with the skip term weighted by pDet instead of 1 - pDet
RECURSIVE DpCellSkipDetected(_, _, _, _, _)
DpCellSkipDetected(obs, planPrefix, p, i, j) ==
    IF i = 0
    THEN IF j = 0 THEN ROne
         ELSE RMul(DpCellSkipDetected(obs, planPrefix, p, 0, j - 1), OneMinus(p))
    ELSE IF j < i THEN RZero
    ELSE LET match == IF obs[i] = planPrefix[j]
                      THEN RMul(DpCellSkipDetected(obs, planPrefix, p, i - 1, j - 1), p)
                      ELSE RZero
             skip == RMul(DpCellSkipDetected(obs, planPrefix, p, i, j - 1), p)
         IN  RAdd(match, skip)

\* lines 421-437: the value the loops leave in dp[i][j]; the cells with j < i
\* are never written and keep the 0.0 of the constructor
RECURSIVE DpCell(_, _, _, _, _)
DpCell(obs, planPrefix, p, i, j) ==
    IF i = 0
    THEN IF j = 0 THEN ROne
         ELSE RMul(DpCell(obs, planPrefix, p, 0, j - 1), OneMinus(p))
    ELSE IF j < i THEN RZero
    ELSE LET match == IF obs[i] = planPrefix[j]
                      THEN RMul(DpCell(obs, planPrefix, p, i - 1, j - 1), p)
                      ELSE RZero
             skip == RMul(DpCell(obs, planPrefix, p, i, j - 1), OneMinus(p))
         IN  RAdd(match, skip)

\* the table filled as if every observation equalled the plan action under it
DpTableAllMatch(obs, planPrefix, p) ==
    IF Len(obs) > Len(planPrefix) THEN <<>>
    ELSE [i \in 0..Len(obs), j \in 0..Len(planPrefix) |->
            DpCell(SubSeq(planPrefix, 1, Len(obs)), planPrefix, p, i, j)]

\* the table dp of alignmentLikelihoodPartialObs; none is built when m > n
DpTable(obs, planPrefix, p) ==
    IF Len(obs) > Len(planPrefix) THEN <<>>
    ELSE [i \in 0..Len(obs), j \in 0..Len(planPrefix) |->
            DpCell(obs, planPrefix, p, i, j)]

\* alignmentLikelihoodPartialObs: 0 when m > n, else dp[m][n]
AlignmentLikelihoodPartialObs(obs, planPrefix, p) ==
    IF Len(obs) > Len(planPrefix) THEN RZero
    ELSE DpTable(obs, planPrefix, p)[Len(obs), Len(planPrefix)]

\* lines 470-476: the branch else; totalProb = 0.0 and t = observations.size()
Stage3PartialBegin ==
    /\ pc = "s3_begin"
    /\ ~fullObservability
    /\ totalProb' = RZero
    /\ prefixLen' = Len(observations)
    /\ dp' = <<>>
    /\ pc' = "s3_loop"
    /\ UNCHANGED <<htn, ordVars, s1Vars, plan, orderingConstraints, s2Vars, logProb,
                   observations, fullObservability, postVars, parseVars, pDet, stage3_prob, mainVars>>

\* lines 476-488: one iteration of the loop over t
Stage3PartialStep ==
    /\ pc = "s3_loop"
    /\ prefixLen <= Len(plan)
    /\ LET progress == ProgressPrior(prefixLen, Len(plan))
           planPrefix == SubSeq(plan, 1, prefixLen)
           alignment == AlignmentLikelihoodPartialObs(observations, planPrefix, pDet)
           contribution == RMul(progress, alignment)
       IN  /\ totalProb' = RAdd(totalProb, contribution)
           /\ dp' = DpTable(observations, planPrefix, pDet)
    /\ prefixLen' = prefixLen + 1
    /\ UNCHANGED <<pc, htn, ordVars, s1Vars, plan, orderingConstraints, s2Vars, logProb,
                   observations, fullObservability, postVars, parseVars, pDet, stage3_prob, mainVars>>

\* lines 488-494: the loop ends and totalProb is returned
Stage3PartialReturn ==
    /\ pc = "s3_loop"
    /\ prefixLen > Len(plan)
    /\ stage3_prob' = totalProb
    /\ pc' = "s3_done"
    /\ UNCHANGED <<htn, ordVars, s1Vars, plan, orderingConstraints, s2Vars, logProb,
                   observations, fullObservability, postVars, parseVars, pDet, s3Loc, mainVars>>

\* detection probabilities of the Stage III runs
PDets == { <<0, 1>>, <<1, 2>>, DefaultPDet, <<1, 1>> }

InitStage3 ==
    /\ pc = "s3_begin"
    /\ htn = FixedModel
    /\ plan \in SeqsUpTo(Actions(htn), MaxPlanLen)
    /\ observations \in SeqsUpTo(Actions(htn), MaxObsLen)
    /\ fullObservability \in BOOLEAN
    /\ pDet \in PDets
    /\ PostIdle /\ ParseIdle
    /\ S3Idle
    /\ OrdIdle /\ S1Idle /\ S2Idle /\ MainIdle
    /\ orderingConstraints = {} /\ logProb = ROne

NextStage3 == Stage3Full \/ Stage3PartialBegin \/ Stage3PartialStep \/ Stage3PartialReturn

SpecStage3 == InitStage3 /\ [][NextStage3]_vars

(***************************************************************************)
(* std::string operations.  Positions are counted from 0 as in the code;   *)
(* Npos stands for string::npos.                                           *)
(***************************************************************************)
Npos == -1

\* s.find(pat, pos): the least position >= pos where pat occurs in s
RECURSIVE FindFrom(_, _, _)
FindFrom(s, pat, pos) ==
    IF pos + Len(pat) > Len(s) THEN Npos
    ELSE IF SubSeq(s, pos + 1, pos + Len(pat)) = pat THEN pos
    ELSE FindFrom(s, pat, pos + 1)

\* s.find(pat)
Find(s, pat) == FindFrom(s, pat, 0)

\* s.find(pat) == 0: pat is a prefix of s
StartsWith(s, pat) == Len(s) >= Len(pat) /\ SubSeq(s, 1, Len(pat)) = pat

\* s.substr(pos, count), for pos <= s.size()
Substr(s, pos, count) == SubSeq(s, pos + 1, Min(pos + count, Len(s)))

\* s.substr(pos)
SubstrFrom(s, pos) == SubSeq(s, pos + 1, Len(s))

\* s.find_first_not_of(chars), chars given as a set of characters
FindFirstNotOf(s, chars) ==
    LET other == { i \in 0..(Len(s) - 1) : SubSeq(s, i + 1, i + 1) \notin chars }
    IN  IF other = {} THEN Npos ELSE CHOOSE i \in other : \A j \in other : i <= j

\* s.find_last_not_of(chars)
FindLastNotOf(s, chars) ==
    LET other == { i \in 0..(Len(s) - 1) : SubSeq(s, i + 1, i + 1) \notin chars }
    IN  IF other = {} THEN Npos ELSE CHOOSE i \in other : \A j \in other : i >= j

(***************************************************************************)
(* Name lookup and trace extraction                                        *)
(***************************************************************************)
\* ::tolower applied to every character of a name
ToLower(n) ==
    CASE n = "A0" -> "a0" [] n = "A1" -> "a1" [] n = "T3" -> "t3" [] OTHER -> n

Tasks(h) == 0..(h.numTasks - 1)

\* the least element of a non-empty set of integers
Least(S) == CHOOSE x \in S : \A y \in S : x <= y

\* the lookup that compares lower-cased names before exact names
FindTaskIdLowerFirst(h, name) ==
    LET lower == { i \in Tasks(h) : ToLower(h.taskNames[i]) = ToLower(name) }
    IN  IF lower # {} THEN Least(lower) ELSE -1

\* findTaskId: first task with that name, else first task whose lower-cased
\* name equals the lower-cased name, else -1
FindTaskId(h, name) ==
    LET exact == { i \in Tasks(h) : h.taskNames[i] = name }
        lower == { i \in Tasks(h) : ToLower(h.taskNames[i]) = ToLower(name) }
    IN  IF exact # {} THEN Least(exact)
        ELSE IF lower # {} THEN Least(lower)
        ELSE -1

\* findMethodId: first method of that task with that name, else -1
FindMethodId(h, methodName, taskId) ==
    LET found == { m \in Methods(h) :
                     h.decomposedTask[m] = taskId /\ h.methodNames[m] = methodName }
    IN  IF found # {} THEN Least(found) ELSE -1

\* main, lines 551-557 and 566-572: the tokens that resolve to an action identifier
RECURSIVE ResolvePlan(_, _)
ResolvePlan(h, strings) ==
    IF strings = <<>> THEN <<>>
    ELSE LET actionId == FindTaskId(h, Head(strings))
             rest == ResolvePlan(h, Tail(strings))
         IN  IF actionId >= 0 /\ actionId < h.numActions
             THEN <<actionId>> \o rest
             ELSE rest

\* taskName.find("<abs>") == 0 || taskName.find("__method_precondition") == 0
IsPseudoRecord(taskName) ==
    StartsWith(taskName, "<abs>") \/ StartsWith(taskName, "__method_precondition")

\* the map that gives every task all methods of the model
TaskToMethodsAll(h, taskId) == Methods(h)

\* taskToMethods[taskId]: the methods that decompose the task
TaskToMethods(h, taskId) == { m \in Methods(h) : h.decomposedTask[m] = taskId }

\* m with v added to m[k] when k is in the domain already
MapPutAdd(m, k, v) ==
    [x \in (DOMAIN m) \cup {k} |->
        IF x # k THEN m[x] ELSE IF k \in DOMAIN m THEN m[k] + v ELSE v]

\* m with m[k] = v, k added to the domain when it is new (map operator[])
MapPut(m, k, v) == [x \in (DOMAIN m) \cup {k} |-> IF x = k THEN v ELSE m[x]]

\* parseDecompositionTreeFromLog, lines 164-201: the effect of one record on
\* taskMethodCounts and *usedMethodIds
ParseRecord(h, rec, acc) ==
    LET taskId == FindTaskId(h, rec.task)
        numMethods == Cardinality(TaskToMethods(h, taskId))
        usedMethodId == FindMethodId(h, rec.method, taskId)
    IN  IF IsPseudoRecord(rec.task) THEN acc
        ELSE IF taskId >= 0 /\ numMethods > 0
        THEN [ counts |-> MapPut(acc.counts, rec.task, numMethods),
               used   |-> IF usedMethodId >= 0
                          THEN acc.used \cup {usedMethodId} ELSE acc.used ]
        ELSE acc

\* parseDecompositionTreeFromLog: the records of the tree section in order;
\* used is the set that usedMethodIds points to when the call starts
RECURSIVE ParseDecompositionTree(_, _, _, _)
ParseDecompositionTree(h, decomp, i, acc) ==
    IF i > Len(decomp) THEN acc
    ELSE ParseDecompositionTree(h, decomp, i + 1, ParseRecord(h, decomp[i], acc))

ParseDecompositionTreeFromLog(h, log, used) ==
    ParseDecompositionTree(h, log.decomp, 1, [counts |-> <<>>, used |-> used])

(***************************************************************************)
(* main                                                                    *)
(***************************************************************************)
\* the quotient taken the wrong way round
RDivSwapped(x, y) ==
    IF x[1] = 0 THEN (IF y[1] = 0 THEN <<0, 0>> ELSE <<1, 0>>)
    ELSE Rat(y[1] * x[2], y[2] * x[1])

\* IEEE division: x/0 is NaN for x = 0 and infinite otherwise, written with
\* denominator 0
RDiv(x, y) ==
    IF y[1] = 0 THEN (IF x[1] = 0 THEN <<0, 0>> ELSE <<1, 0>>)
    ELSE Rat(x[1] * y[2], x[2] * y[1])

fnVars == <<ordVars, s1Vars, s2Vars, stage3_prob, logProb>>

\* lines 545-557: the observation plan is parsed and resolved
MainParseObsPlan ==
    /\ mainPc = "parse_obs_plan"
    /\ IF obsLog.plan = <<>>
       THEN mainPc' = "exit_1" /\ UNCHANGED obsPlan
       ELSE mainPc' = "parse_base_plan" /\ obsPlan' = ResolvePlan(htn, obsLog.plan)
    /\ UNCHANGED <<pc, htn, fnVars, plan, orderingConstraints, observations,
                   fullObservability, postVars, parseVars, pDet, s3Loc, obsLog, baseLog, numObservations, basePlan,
                   usedMethodIds, obsTaskMethodCounts, baseTaskMethodCounts, scores>>

\* lines 560-572: the baseline plan is parsed and resolved
MainParseBasePlan ==
    /\ mainPc = "parse_base_plan"
    /\ IF baseLog.plan = <<>>
       THEN mainPc' = "exit_1" /\ UNCHANGED basePlan
       ELSE mainPc' = "prepare_observations" /\ basePlan' = ResolvePlan(htn, baseLog.plan)
    /\ UNCHANGED <<pc, htn, fnVars, plan, orderingConstraints, observations,
                   fullObservability, postVars, parseVars, pDet, s3Loc, obsLog, baseLog, numObservations, obsPlan,
                   usedMethodIds, obsTaskMethodCounts, baseTaskMethodCounts, scores>>

\* the observations taken to be the whole plan in every case
PrepareObservationsAll(p, n) == p

\* lines 578-584: the whole plan when the number is negative or exceeds the
\* plan's length, the first n elements otherwise
PrepareObservations(p, n) ==
    IF n < 0 \/ n > Len(p) THEN p ELSE SubSeq(p, 1, n)

\* lines 578-586: the observations are a prefix of the observation plan
MainPrepareObservations ==
    /\ mainPc = "prepare_observations"
    /\ observations' = PrepareObservations(obsPlan, numObservations)
    /\ IF numObservations < 0 \/ numObservations > Len(obsPlan)
       THEN numObservations' = Len(obsPlan)
       ELSE UNCHANGED numObservations
    /\ mainPc' = "parse_trees"
    /\ UNCHANGED <<pc, htn, fnVars, plan, orderingConstraints, fullObservability, postVars, parseVars, pDet, s3Loc,
                   obsLog, baseLog, obsPlan, basePlan, usedMethodIds,
                   obsTaskMethodCounts, baseTaskMethodCounts, scores>>

\* lines 589-605: both traces are parsed into the same usedMethodIds, then
\* extractOrderingConstraints(htn, &usedMethodIds) is called
MainParseTrees ==
    /\ mainPc = "parse_trees"
    /\ LET obsTree == ParseDecompositionTreeFromLog(htn, obsLog, {})
           baseTree == ParseDecompositionTreeFromLog(htn, baseLog, obsTree.used)
       IN  /\ obsTaskMethodCounts' = obsTree.counts
           /\ baseTaskMethodCounts' = baseTree.counts
           /\ usedMethodIds' = baseTree.used
           /\ methodFilter' = Filter(baseTree.used)
    /\ pc' = "ord_collect"
    /\ mainPc' = "extract"
    /\ UNCHANGED <<htn, orderings, changed, s1Vars, s2Vars, stage3_prob, logProb, plan,
                   orderingConstraints, observations, fullObservability, postVars, parseVars, pDet, s3Loc, obsLog,
                   baseLog, numObservations, obsPlan, basePlan, scores>>

\* lines 605-615: orderingConstraints receives the returned relation, then
\* computeStage1Probability(obsTaskMethodCounts) is called
MainObsStage1 ==
    /\ mainPc = "extract" /\ pc = "ord_done"
    /\ orderingConstraints' = orderings
    /\ taskMethodCounts' = obsTaskMethodCounts
    /\ pc' = "s1_begin"
    /\ mainPc' = "obs_stage1"
    /\ UNCHANGED <<htn, ordVars, it, numCompoundTasks, stage1_prob, s2Vars, stage3_prob,
                   logProb, plan, observations, fullObservability, postVars, parseVars, pDet, s3Loc, obsLog, baseLog,
                   numObservations, obsPlan, basePlan, usedMethodIds,
                   obsTaskMethodCounts, baseTaskMethodCounts, scores>>

\* lines 615-616: obs_stage1 receives the result, then
\* computeStage2Probability(htn, obsPlan, orderingConstraints) is called
MainObsStage2 ==
    /\ mainPc = "obs_stage1" /\ pc = "s1_done"
    /\ scores' = [scores EXCEPT !.obs_stage1 = stage1_prob]
    /\ plan' = obsPlan
    /\ pc' = "s2_begin"
    /\ mainPc' = "obs_stage2"
    /\ UNCHANGED <<htn, fnVars, orderingConstraints, observations, fullObservability, postVars, parseVars, pDet, s3Loc,
                   obsLog, baseLog, numObservations, obsPlan, basePlan, usedMethodIds,
                   obsTaskMethodCounts, baseTaskMethodCounts>>

\* lines 616-617: obs_stage2 receives the result, then
\* computeStage3Probability(observations, obsPlan, ...) is called
MainObsStage3 ==
    /\ mainPc = "obs_stage2" /\ pc = "s2_done"
    /\ scores' = [scores EXCEPT !.obs_stage2 = stage2_prob]
    /\ plan' = obsPlan
    /\ pc' = "s3_begin"
    /\ mainPc' = "obs_stage3"
    /\ UNCHANGED <<htn, fnVars, orderingConstraints, observations, fullObservability, postVars, parseVars, pDet, s3Loc,
                   obsLog, baseLog, numObservations, obsPlan, basePlan, usedMethodIds,
                   obsTaskMethodCounts, baseTaskMethodCounts>>

\* lines 617-632: obs_stage3 and the numerator, then
\* computeStage1Probability(baseTaskMethodCounts) is called
MainBaseStage1 ==
    /\ mainPc = "obs_stage3" /\ pc = "s3_done"
    /\ scores' = [scores EXCEPT
                    !.obs_stage3 = stage3_prob,
                    !.numerator = RMul(RMul(scores.obs_stage1, scores.obs_stage2),
                                       stage3_prob)]
    /\ taskMethodCounts' = baseTaskMethodCounts
    /\ pc' = "s1_begin"
    /\ mainPc' = "base_stage1"
    /\ UNCHANGED <<htn, ordVars, it, numCompoundTasks, stage1_prob, s2Vars, stage3_prob,
                   logProb, plan, orderingConstraints, observations, fullObservability, postVars, parseVars, pDet, s3Loc,
                   obsLog, baseLog, numObservations, obsPlan, basePlan, usedMethodIds,
                   obsTaskMethodCounts, baseTaskMethodCounts>>

\* lines 632-633: base_stage1 receives the result, then
\* computeStage2Probability(htn, basePlan, orderingConstraints) is called
MainBaseStage2 ==
    /\ mainPc = "base_stage1" /\ pc = "s1_done"
    /\ scores' = [scores EXCEPT !.base_stage1 = stage1_prob]
    /\ plan' = basePlan
    /\ pc' = "s2_begin"
    /\ mainPc' = "base_stage2"
    /\ UNCHANGED <<htn, fnVars, orderingConstraints, observations, fullObservability, postVars, parseVars, pDet, s3Loc,
                   obsLog, baseLog, numObservations, obsPlan, basePlan, usedMethodIds,
                   obsTaskMethodCounts, baseTaskMethodCounts>>

\* lines 633-667: base_stage2, the denominator and the normalized likelihood;
\* main returns 0
MainCombine ==
    /\ mainPc = "base_stage2" /\ pc = "s2_done"
    /\ LET denominator == RMul(scores.base_stage1, stage2_prob)
       IN  scores' = [scores EXCEPT
                        !.base_stage2 = stage2_prob,
                        !.denominator = denominator,
                        !.normalized_likelihood = RDiv(scores.numerator, denominator)]
    /\ pc' = "main"
    /\ mainPc' = "exit_0"
    /\ UNCHANGED <<htn, fnVars, plan, orderingConstraints, observations,
                   fullObservability, postVars, parseVars, pDet, s3Loc, obsLog, baseLog, numObservations, obsPlan,
                   basePlan, usedMethodIds, obsTaskMethodCounts, baseTaskMethodCounts>>

\* plan tokens and decomposition records of the logs read by main
MainTokens == {"a0", "A1", "zz"}

MainRecords ==
    { [task |-> "t3", method |-> "m0"], [task |-> "T3", method |-> "m1"] }

MainLogs ==
    { [plan |-> p, decomp |-> d] :
        p \in SeqsUpTo(MainTokens, MainPlanLen), d \in SeqsUpTo(MainRecords, MainDecompLen) }

\* argv[5]: absent (-1) or a number of observations
NumObsArgs == {-1, 1}

\* the model file read by main: the fixed model with action 0 free of
\* preconditions and effects, and proposition 0 true initially
MainModel ==
    [ ModelWith(DefaultSub, DefaultOrd, Arr(<<0>>), DefaultDel, DefaultAdd)
        EXCEPT !.addLists[0] = Arr(<<>>), !.numAdds[0] = 0 ]

Init ==
    /\ pc = "main"
    /\ mainPc = "parse_obs_plan"
    /\ htn = MainModel
    /\ obsLog \in MainLogs
    /\ baseLog \in MainLogs
    /\ numObservations \in NumObsArgs
    /\ fullObservability \in BOOLEAN
    /\ pDet = DefaultPDet
    /\ PostIdle /\ ParseIdle
    /\ obsPlan = <<>> /\ basePlan = <<>> /\ observations = <<>>
    /\ usedMethodIds = {} /\ obsTaskMethodCounts = <<>> /\ baseTaskMethodCounts = <<>>
    /\ scores = NoScores
    /\ OrdIdle /\ S1Idle /\ S2Idle /\ S3Idle
    /\ plan = <<>> /\ orderingConstraints = {} /\ logProb = ROne

Next ==
    \/ MainParseObsPlan \/ MainParseBasePlan \/ MainPrepareObservations
    \/ MainParseTrees \/ MainObsStage1 \/ MainObsStage2 \/ MainObsStage3
    \/ MainBaseStage1 \/ MainBaseStage2 \/ MainCombine
    \/ OrdCollect \/ ClosurePass \/ OrdReturn
    \/ Stage1Begin \/ Stage1Step \/ Stage1Return
    \/ Stage2Begin \/ Stage2Step \/ Stage2Return
    \/ Stage3Full \/ Stage3PartialBegin \/ Stage3PartialStep \/ Stage3PartialReturn

Spec == Init /\ [][Next]_vars

\* values of type double that a stage function can return; exp(logProb)
\* (lines 252 and 380) is 0.0 once logProb is below the least exponent of a
\* double, which exact arithmetic on short plans does not reach
StageValues == { RZero, <<1, 4>>, <<1, 2>>, ROne }

\* main at line 633, the second baseline stage returned: the stage values
\* are inputs
InitCombine ==
    /\ pc = "s2_done"
    /\ mainPc = "base_stage2"
    /\ htn = MainModel
    /\ \E s1 \in StageValues, s2 \in StageValues, s3 \in StageValues,
          b1 \in StageValues :
          scores = [ NoScores EXCEPT
                       !.obs_stage1 = s1, !.obs_stage2 = s2, !.obs_stage3 = s3,
                       !.numerator = RMul(RMul(s1, s2), s3), !.base_stage1 = b1 ]
    /\ stage2_prob \in StageValues
    /\ stage1_prob = scores.base_stage1
    /\ stage3_prob = scores.obs_stage3
    /\ obsLog = EmptyLog /\ baseLog = EmptyLog /\ numObservations = 0
    /\ obsPlan = <<>> /\ basePlan = <<>> /\ observations = <<>>
    /\ usedMethodIds = {} /\ obsTaskMethodCounts = <<>> /\ baseTaskMethodCounts = <<>>
    /\ OrdIdle
    /\ taskMethodCounts = <<>> /\ it = 0 /\ numCompoundTasks = 0
    /\ currentState = {} /\ executed = {} /\ remaining = {} /\ t = 0
    /\ totalProb = RZero /\ prefixLen = 0 /\ dp = <<>>
    /\ fullObservability = TRUE /\ pDet = DefaultPDet
    /\ PostIdle /\ ParseIdle
    /\ plan = <<>> /\ orderingConstraints = {} /\ logProb = ROne

SpecCombine == InitCombine /\ [][MainCombine]_vars

(***************************************************************************)
(* main reading its two log files line by line: parsePlanFromLog and       *)
(* parseDecompositionTreeFromLog run as loops over the lines of the file.  *)
(***************************************************************************)
\* the variables of compute_normalized_likelihood that the parsing functions
\* and their call sites leave alone
calcVars == <<pc, htn, ordVars, s1Vars, plan, orderingConstraints, s2Vars, logProb,
              observations, fullObservability, pDet, s3Loc, stage3_prob>>

\* parameter logFile of the parsing function that runs
LogFile ==
    IF mainPc \in {"call_parse_obs_plan", "call_parse_obs_tree"}
    THEN observationLogFile ELSE baselineLogFile

\* lines 64-75: what a line of the plan section appends to plan
PlanAction(line) ==
    LET spacePos == Find(line, " ")
        actionPart == SubstrFrom(line, spacePos + 1)
        start == FindFirstNotOf(actionPart, {" ", "\t"})
        end == FindLastNotOf(actionPart, {" ", "\t", "\r", "\n"})
        action == Substr(actionPart, start, end - start + 1)
    IN  IF spacePos = Npos THEN <<>>
        ELSE IF start = Npos \/ end = Npos THEN <<>>
        ELSE IF Find(action, "->") = Npos /\ action # "" THEN <<action>>
        ELSE <<>>

\* parsePlanFromLog, lines 49-77: one iteration of the while loop
ParsePlanLine ==
    /\ parsePc = "plan"
    /\ lineNo < Len(LogFile)
    /\ lineNo' = lineNo + 1
    /\ LET line == LogFile[lineNo + 1]
       IN  IF Find(line, "==>") # Npos
           THEN inPlanSection' = TRUE /\ UNCHANGED <<parsePc, planStrings>>
           ELSE IF Find(line, "<==") # Npos \/ StartsWith(line, "root ")
           THEN parsePc' = "plan_break" /\ UNCHANGED <<inPlanSection, planStrings>>
           ELSE IF inPlanSection /\ Find(line, "<abs>") = Npos /\ Find(line, "->") = Npos
           THEN /\ planStrings' = planStrings \o PlanAction(line)
                /\ UNCHANGED <<parsePc, inPlanSection>>
           ELSE UNCHANGED <<parsePc, inPlanSection, planStrings>>
    /\ UNCHANGED <<calcVars, mainVars, postVars, observationLogFile, baselineLogFile,
                   inDecompTree, treeCounts>>

\* the while loop of parsePlanFromLog has ended: break, or getline at end of file
PlanParsed == parsePc = "plan_break" \/ (parsePc = "plan" /\ lineNo = Len(LogFile))

\* the test that finds a plan in every log
NoPlanFoundNever(strings) == FALSE

\* lines 546 and 561: obsPlanStrings.empty(), basePlanStrings.empty()
NoPlanFound(strings) == strings = <<>>

\* lines 545-560: obsPlanStrings receives the returned plan; main returns 1 when
\* it is empty, else resolves it and calls parsePlanFromLog(baselineLogFile)
MainObsPlanParsed ==
    /\ mainPc = "call_parse_obs_plan" /\ PlanParsed
    /\ obsLog' = [obsLog EXCEPT !.plan = planStrings]
    /\ IF NoPlanFound(planStrings)
       THEN /\ mainPc' = "exit_1" /\ parsePc' = "none"
            /\ UNCHANGED <<obsPlan, lineNo, inPlanSection, planStrings>>
       ELSE /\ obsPlan' = ResolvePlan(htn, planStrings)
            /\ mainPc' = "call_parse_base_plan" /\ parsePc' = "plan"
            /\ lineNo' = 0 /\ inPlanSection' = FALSE /\ planStrings' = <<>>
    /\ UNCHANGED <<calcVars, postVars, baseLog, numObservations, basePlan, usedMethodIds,
                   obsTaskMethodCounts, baseTaskMethodCounts, scores,
                   observationLogFile, baselineLogFile, inDecompTree, treeCounts>>

\* lines 560-572: basePlanStrings receives the returned plan; main returns 1
\* when it is empty, else resolves it
MainBasePlanParsed ==
    /\ mainPc = "call_parse_base_plan" /\ PlanParsed
    /\ baseLog' = [baseLog EXCEPT !.plan = planStrings]
    /\ IF NoPlanFound(planStrings)
       THEN mainPc' = "exit_1" /\ UNCHANGED basePlan
       ELSE mainPc' = "prepare_observations" /\ basePlan' = ResolvePlan(htn, planStrings)
    /\ parsePc' = "none"
    /\ UNCHANGED <<calcVars, postVars, obsLog, numObservations, obsPlan, usedMethodIds,
                   obsTaskMethodCounts, baseTaskMethodCounts, scores,
                   observationLogFile, baselineLogFile, lineNo, inPlanSection,
                   inDecompTree, planStrings, treeCounts>>

\* lines 164-182: the task and method names of a decomposition line, none when
\* the arrow is not right of the first space
TreeRecord(line) ==
    LET firstSpace == Find(line, " ")
        arrow == Find(line, " -> ")
        taskName == Substr(line, firstSpace + 1, arrow - firstSpace - 1)
        methodStart == arrow + 4
        found == FindFrom(line, " ", methodStart)
        methodEnd == IF found = Npos THEN Len(line) ELSE found
        methodName == Substr(line, methodStart, methodEnd - methodStart)
    IN  IF firstSpace # Npos /\ arrow # Npos /\ arrow > firstSpace
        THEN << [task |-> taskName, method |-> methodName] >>
        ELSE <<>>

\* parseDecompositionTreeFromLog, lines 151-202: one iteration of the while
\* loop; usedMethodIds points to the set of main
ParseTreeLine ==
    /\ parsePc = "tree"
    /\ lineNo < Len(LogFile)
    /\ lineNo' = lineNo + 1
    /\ LET line == LogFile[lineNo + 1]
           recs == TreeRecord(line)
           acc == ParseRecord(htn, recs[1], [counts |-> treeCounts, used |-> usedMethodIds])
       IN  IF Find(line, "root 0") # Npos
           THEN inDecompTree' = TRUE /\ UNCHANGED <<parsePc, treeCounts, usedMethodIds>>
           ELSE IF inDecompTree /\ Find(line, "<==") # Npos
           THEN parsePc' = "tree_break"
                /\ UNCHANGED <<inDecompTree, treeCounts, usedMethodIds>>
           ELSE IF inDecompTree /\ Find(line, " -> ") # Npos /\ recs # <<>>
           THEN /\ treeCounts' = acc.counts
                /\ usedMethodIds' = acc.used
                /\ UNCHANGED <<parsePc, inDecompTree>>
           ELSE UNCHANGED <<parsePc, inDecompTree, treeCounts, usedMethodIds>>
    /\ UNCHANGED <<calcVars, postVars, mainPc, obsLog, baseLog, numObservations, obsPlan,
                   basePlan, obsTaskMethodCounts, baseTaskMethodCounts, scores,
                   observationLogFile, baselineLogFile, inPlanSection, planStrings>>

TreeParsed == parsePc = "tree_break" \/ (parsePc = "tree" /\ lineNo = Len(LogFile))

\* lines 589-591: usedMethodIds is empty and
\* parseDecompositionTreeFromLog(observationLogFile, htn, &usedMethodIds) is called
MainCallParseTree ==
    /\ mainPc = "parse_trees"
    /\ mainPc' = "call_parse_obs_tree" /\ parsePc' = "tree"
    /\ lineNo' = 0 /\ inDecompTree' = FALSE /\ treeCounts' = <<>>
    /\ usedMethodIds' = {}
    /\ UNCHANGED <<calcVars, postVars, obsLog, baseLog, numObservations, obsPlan,
                   basePlan, obsTaskMethodCounts, baseTaskMethodCounts, scores,
                   observationLogFile, baselineLogFile, inPlanSection, planStrings>>

\* lines 591-592: obsTaskMethodCounts receives the returned map, then
\* parseDecompositionTreeFromLog(baselineLogFile, htn, &usedMethodIds) is called
MainObsTreeParsed ==
    /\ mainPc = "call_parse_obs_tree" /\ TreeParsed
    /\ obsTaskMethodCounts' = treeCounts
    /\ mainPc' = "call_parse_base_tree" /\ parsePc' = "tree"
    /\ lineNo' = 0 /\ inDecompTree' = FALSE /\ treeCounts' = <<>>
    /\ UNCHANGED <<calcVars, postVars, obsLog, baseLog, numObservations, obsPlan,
                   basePlan, usedMethodIds, baseTaskMethodCounts, scores,
                   observationLogFile, baselineLogFile, inPlanSection, planStrings>>

\* lines 592-605: baseTaskMethodCounts receives the returned map, then
\* extractOrderingConstraints(htn, &usedMethodIds) is called
MainBaseTreeParsed ==
    /\ mainPc = "call_parse_base_tree" /\ TreeParsed
    /\ baseTaskMethodCounts' = treeCounts
    /\ methodFilter' = Filter(usedMethodIds)
    /\ pc' = "ord_collect"
    /\ mainPc' = "extract" /\ parsePc' = "none"
    /\ UNCHANGED <<htn, orderings, changed, s1Vars, s2Vars, stage3_prob, logProb, plan,
                   orderingConstraints, observations, fullObservability, postVars, pDet,
                   s3Loc, obsLog, baseLog, numObservations, obsPlan, basePlan,
                   usedMethodIds, obsTaskMethodCounts, scores, observationLogFile,
                   baselineLogFile, lineNo, inPlanSection, inDecompTree, planStrings,
                   treeCounts>>

MaxLines == 2           \* most free lines of a section of a log file

\* lines of a plan section: resolved by exact name, by lower-cased name only,
\* not resolved, a compound task, a decomposition record
PlanLines == { "0 a0", "1 A0 ", "2 A1", "3 zz", "4 t3", "5 t4 -> m2" }

\* lines of a decomposition tree: records of compound tasks, pseudo-records, a
\* primitive action, an unknown task, a record without an identifier, and the
\* end marker
TreeLines ==
    { "1 t3 -> m0 2 3", "2 T3 -> m1", "3 <abs>t3 -> m0",
      "4 __method_precondition_m0 -> m0", "5 a0 -> m0", "6 t4 -> m0", "7 zz -> m0",
      "t4 -> m2", "<==" }

GoodPlanPart == << "==>", "0 a0", "1 a1" >>

GoodTreePart == << "root 0", "1 t3 -> m0 2 3", "<==" >>

\* log files whose plan section, or whose decomposition tree, is free
RawFiles ==
    { h \o p \o GoodTreePart :
        h \in { <<>>, << "==>" >> }, p \in SeqsUpTo(PlanLines, MaxLines) }
    \cup
    { GoodPlanPart \o h \o d \o << "<==" >> :
        h \in { <<>>, << "root 0" >> }, d \in SeqsUpTo(TreeLines, MaxLines) }

\* a complete log file and one without a plan section
FixedFiles == { GoodPlanPart \o GoodTreePart, GoodTreePart }

\* the model file read by main: actions 0 and 2 have names that differ in case only
ParseModel == [ MainModel EXCEPT !.taskNames[2] = "A0" ]

InitParse ==
    /\ pc = "main"
    /\ mainPc = "call_parse_obs_plan"
    /\ htn = ParseModel
    /\ \E raw \in RawFiles, fixed \in FixedFiles :
          \/ observationLogFile = raw /\ baselineLogFile = fixed
          \/ observationLogFile = fixed /\ baselineLogFile = raw
    /\ parsePc = "plan" /\ lineNo = 0 /\ inPlanSection = FALSE /\ inDecompTree = FALSE
    /\ planStrings = <<>> /\ treeCounts = <<>>
    /\ obsLog = EmptyLog /\ baseLog = EmptyLog
    /\ numObservations \in NumObsArgs
    /\ fullObservability = TRUE
    /\ pDet = DefaultPDet
    /\ PostIdle
    /\ obsPlan = <<>> /\ basePlan = <<>> /\ observations = <<>>
    /\ usedMethodIds = {} /\ obsTaskMethodCounts = <<>> /\ baseTaskMethodCounts = <<>>
    /\ scores = NoScores
    /\ OrdIdle /\ S1Idle /\ S2Idle /\ S3Idle
    /\ plan = <<>> /\ orderingConstraints = {} /\ logProb = ROne

NextParse ==
    \/ ParsePlanLine \/ MainObsPlanParsed \/ MainBasePlanParsed
    \/ MainPrepareObservations
    \/ MainCallParseTree \/ ParseTreeLine \/ MainObsTreeParsed \/ MainBaseTreeParsed
    \/ MainObsStage1 \/ MainObsStage2 \/ MainObsStage3
    \/ MainBaseStage1 \/ MainBaseStage2 \/ MainCombine
    \/ OrdCollect \/ ClosurePass \/ OrdReturn
    \/ Stage1Begin \/ Stage1Step \/ Stage1Return
    \/ Stage2Begin \/ Stage2Step \/ Stage2Return
    \/ Stage3Full

SpecParse == InitParse /\ [][NextParse]_vars

(***************************************************************************)
(* The posterior normalizers: compute_posterior, compute_posterior_        *)
(* probabilities, the command normalize of posterior_helper, and           *)
(* write_final_results of compute_monroe.  A likelihood is an integer, a   *)
(* posterior an exact rational.                                            *)
(***************************************************************************)
MaxHyps == 3            \* most entries in the input of a normalizer

\* hypothesis identifiers in the order of operator< on strings; "" is the
\* initial value of curr_hypothesis
HypOrder == << "", "h1", "h2", "h3" >>

Hyps == {"h1", "h2", "h3"}

HypRank(n) == CHOOSE i \in 1..Len(HypOrder) : HypOrder[i] = n

\* likelihood values that stod reads from the input
LikValues == {-1, 0, 1, 2}

EntryLists == SeqsUpTo([name : Hyps, likelihood : LikValues], MaxHyps)

\* the loops that add up the likelihoods
RECURSIVE SumLikelihoods(_)
SumLikelihoods(rs) ==
    IF rs = <<>> THEN 0 ELSE Head(rs).likelihood + SumLikelihoods(Tail(rs))

\* likelihood / likelihoodSum for likelihoodSum other than 0
Quotient(lik, sum) == IF sum < 0 THEN Rat(-lik, -sum) ELSE Rat(lik, sum)

RLess(x, y) == x[1] * y[2] < y[1] * x[2]

RECURSIVE SumPosteriors(_)
SumPosteriors(rs) ==
    IF rs = <<>> THEN RZero ELSE RAdd(Head(rs).posterior, SumPosteriors(Tail(rs)))

\* every entry with the posterior likelihood / sum
WithPosteriors(rs, sum) ==
    [i \in 1..Len(rs) |->
        [name |-> rs[i].name, likelihood |-> rs[i].likelihood,
         posterior |-> Quotient(rs[i].likelihood, sum)]]

\* every entry with the same posterior q
WithPosterior(rs, q) ==
    [i \in 1..Len(rs) |->
        [name |-> rs[i].name, likelihood |-> rs[i].likelihood, posterior |-> q]]

Perms(n) == { f \in [1..n -> 1..n] : \A i, j \in 1..n : f[i] = f[j] => i = j }

\* std::sort with the comparator a.posterior > b.posterior: some arrangement of
\* rs in which no entry has a greater posterior than an entry before it; the
\* order of entries with equal posteriors is unspecified
SortByPosterior(rs) ==
    { [i \in 1..Len(rs) |-> rs[f[i]]] : f \in
        { g \in Perms(Len(rs)) :
            \A i, j \in 1..Len(rs) :
                i < j => ~ RLess(rs[g[i]].posterior, rs[g[j]].posterior) } }

\* the comparator of write_final_results: greater posterior first, then the
\* smaller identifier
RankedBefore(a, b) ==
    IF a.posterior # b.posterior THEN RLess(b.posterior, a.posterior)
    ELSE HypRank(a.name) < HypRank(b.name)

\* std::stable_sort with RankedBefore: no entry is to be before an entry ahead
\* of it, and entries that are not ordered keep their places
StableSortRanked(rs) ==
    LET f == CHOOSE g \in Perms(Len(rs)) :
                \A i, j \in 1..Len(rs) :
                    i < j => /\ ~ RankedBefore(rs[g[j]], rs[g[i]])
                             /\ (~ RankedBefore(rs[g[i]], rs[g[j]]) => g[i] < g[j])
    IN  [i \in 1..Len(rs) |-> rs[f[i]]]

\* the entries of a map<string, double> in the order of its iterator
RECURSIVE MapEntries(_)
MapEntries(m) ==
    IF DOMAIN m = {} THEN <<>>
    ELSE LET k == CHOOSE x \in DOMAIN m : \A y \in DOMAIN m : HypRank(x) <= HypRank(y)
         IN  <<[name |-> k, likelihood |-> m[k]]>>
                 \o MapEntries([x \in (DOMAIN m) \ {k} |-> m[x]])

\* part_000, main, lines 89-188: compute_posterior after it has read the
\* entries of its input file
ComputePosterior ==
    /\ normalizer = "compute_posterior" /\ exitStatus = -1
    /\ LET likelihoodSum == SumLikelihoods(results)
       IN  IF results = <<>> \/ likelihoodSum = 0
           THEN /\ exitStatus' = 1
                /\ UNCHANGED <<posteriors, emitted>>
           ELSE \E sorted \in SortByPosterior(WithPosteriors(results, likelihoodSum)) :
                    /\ posteriors' = sorted
                    /\ emitted' = TRUE
                    /\ exitStatus' = IF SumPosteriors(sorted) = ROne THEN 0 ELSE 1
    /\ UNCHANGED <<normalizer, results, monroeVars, shVars, hgrVars>>

\* compute_posterior_probabilities.cpp, main, lines 89-179: the entries with a
\* negative likelihood are skipped; a sum of 0 writes the zero posteriors
ComputePosteriorProbabilities ==
    /\ normalizer = "compute_posterior_probabilities" /\ exitStatus = -1
    /\ LET hypotheses == SelectSeq(results, LAMBDA r : r.likelihood >= 0)
           likelihoodSum == SumLikelihoods(hypotheses)
       IN  IF hypotheses = <<>>
           THEN /\ exitStatus' = 1
                /\ UNCHANGED <<posteriors, emitted>>
           ELSE IF likelihoodSum = 0
           THEN /\ posteriors' = WithPosterior(hypotheses, RZero)
                /\ emitted' = TRUE
                /\ exitStatus' = 1
           ELSE /\ posteriors' = WithPosteriors(hypotheses, likelihoodSum)
                /\ emitted' = TRUE
                /\ exitStatus' = 0
    /\ UNCHANGED <<normalizer, results, monroeVars, shVars, hgrVars>>

\* computeNormalizedPosteriors: the uniform distribution on a total of 0
ComputeNormalizedPosteriors(likelihoods) ==
    LET total == SumLikelihoods(likelihoods)
    IN  IF total = 0 THEN WithPosterior(likelihoods, Rat(1, Len(likelihoods)))
        ELSE WithPosteriors(likelihoods, total)

\* posterior_helper.cpp, main, lines 961-1000: the command normalize
PosteriorHelperNormalize ==
    /\ normalizer = "posterior_helper" /\ exitStatus = -1
    /\ IF results = <<>>
       THEN /\ exitStatus' = 1
            /\ UNCHANGED <<posteriors, emitted>>
       ELSE /\ posteriors' = ComputeNormalizedPosteriors(results)
            /\ emitted' = TRUE
            /\ exitStatus' = 0
    /\ UNCHANGED <<normalizer, results, monroeVars, shVars, hgrVars>>

\* compute_monroe.cpp, write_final_results: the discovery-order section, then
\* the ranked section
WriteFinalResults ==
    /\ monroePc = "final"
    /\ discovery' =
          [i \in 1..Len(iteration_order) |->
              [name |-> iteration_order[i],
               likelihood |-> iteration_likelihoods[iteration_order[i]]]]
    /\ LET entries == MapEntries(iteration_likelihoods)
           total_likelihood == SumLikelihoods(entries)
           ranked == IF total_likelihood > 0
                     THEN WithPosteriors(entries, total_likelihood)
                     ELSE WithPosterior(entries, RZero)
       IN  posteriors' = StableSortRanked(ranked)
    /\ emitted' = TRUE
    /\ exitStatus' = 0
    /\ monroePc' = "done"
    /\ UNCHANGED <<normalizer, results, curr_iteration, k_iterations, curr_hypothesis,
                   domain_file, iteration_likelihoods, iteration_order,
                   overall_likelihoods, shVars, hgrVars>>

\* map operator[] applied for every entry of rs in turn: the last likelihood
\* of a name stays
RECURSIVE MapOfEntries(_)
MapOfEntries(rs) ==
    IF rs = <<>> THEN <<>>
    ELSE MapPut(MapOfEntries(SubSeq(rs, 1, Len(rs) - 1)),
                rs[Len(rs)].name, rs[Len(rs)].likelihood)

Normalizers ==
    { "compute_posterior", "compute_posterior_probabilities", "posterior_helper",
      "compute_monroe" }

\* no function of compute_normalized_likelihood runs
HgrIdle ==
    /\ pc = "main" /\ htn = FixedModel
    /\ OrdIdle /\ S1Idle /\ S2Idle /\ S3Idle /\ MainIdle
    /\ plan = <<>> /\ orderingConstraints = {} /\ logProb = ROne
    /\ observations = <<>> /\ fullObservability = TRUE /\ pDet = DefaultPDet
    /\ ParseIdle

\* a normalizer that has read its input; for compute_monroe the input is the
\* list of scored hypotheses, held in its globals
InitNormalize ==
    /\ normalizer \in Normalizers
    /\ posteriors = <<>> /\ emitted = FALSE /\ exitStatus = -1
    /\ \E rs \in EntryLists :
          IF normalizer = "compute_monroe"
          THEN /\ \A i \in 1..Len(rs) : rs[i].likelihood >= 0
               /\ \A i, j \in 1..Len(rs) : rs[i].name = rs[j].name => i = j
               /\ results = <<>>
               /\ monroePc = "final"
               /\ k_iterations = Len(rs) /\ curr_iteration = Len(rs) + 1
               /\ curr_hypothesis = (IF rs = <<>> THEN "" ELSE rs[Len(rs)].name)
               /\ domain_file = Hyps \ { rs[i].name : i \in 1..Len(rs) }
               /\ iteration_likelihoods = MapOfEntries(rs)
               /\ iteration_order = [i \in 1..Len(rs) |-> rs[i].name]
               /\ overall_likelihoods = rs
               /\ discovery = <<>>
          ELSE results = rs /\ MonroeIdle
    /\ ShIdle
    /\ HgrIdle

NextNormalize ==
    \/ ComputePosterior \/ ComputePosteriorProbabilities \/ PosteriorHelperNormalize
    \/ WriteFinalResults

SpecNormalize == InitNormalize /\ [][NextNormalize]_vars

(***************************************************************************)
(* compute_monroe: the iteration loop of main.  The planner, the grounder  *)
(* and compute_normalized_likelihood are external programs; how they end   *)
(* and what the planner log holds are inputs of every iteration.           *)
(***************************************************************************)
MaxIterations == 3      \* largest k_iterations

\* likelihood values that compute_normalized_likelihood prints
Likelihoods == {0, 1, 2}

\* lines 1202-1210: step_1 .. step_4.  step_4 returns 2 on a log that ends with
\* "Proven unsolvable" and main leaves the loop; it sets curr_hypothesis when it
\* finds the method of the top task in the log, and leaves the global as it is
\* when it does not (return 1, or no entry for the top task id); main goes on
\* in both cases
MonroeStep4 ==
    /\ monroePc = "loop"
    /\ curr_iteration <= k_iterations
    /\ \/ /\ monroePc' = "final"
          /\ UNCHANGED curr_hypothesis
       \/ /\ monroePc' = "score"
          /\ curr_hypothesis' \in domain_file
       \/ /\ monroePc' = "score"
          /\ UNCHANGED curr_hypothesis
    /\ UNCHANGED <<curr_iteration, k_iterations, domain_file, iteration_likelihoods,
                   iteration_order, overall_likelihoods, discovery, normVars, shVars,
                   hgrVars>>

\* lines 1211-1213: step_5 .. step_7.  step_7 returns 1 and records nothing
\* when compute_normalized_likelihood fails; otherwise it appends a line to the
\* overall likelihood file, assigns iteration_likelihoods[hyp_str] and appends
\* hyp_str to iteration_order
MonroeStep7 ==
    /\ monroePc = "score"
    /\ \/ UNCHANGED <<iteration_likelihoods, iteration_order, overall_likelihoods>>
       \/ \E lik \in Likelihoods :
             /\ overall_likelihoods' =
                   Append(overall_likelihoods,
                          [name |-> curr_hypothesis, likelihood |-> lik])
             /\ iteration_likelihoods' = MapPut(iteration_likelihoods, curr_hypothesis, lik)
             /\ iteration_order' = Append(iteration_order, curr_hypothesis)
    /\ monroePc' = "cleanup"
    /\ UNCHANGED <<curr_iteration, k_iterations, curr_hypothesis, domain_file, discovery,
                   normVars, shVars, hgrVars>>

\* lines 1214-1223: step_8 removes the method of curr_hypothesis from the
\* domain, then curr_iteration++
MonroeStep8 ==
    /\ monroePc = "cleanup"
    /\ domain_file' = domain_file \ {curr_hypothesis}
    /\ curr_iteration' = curr_iteration + 1
    /\ monroePc' = "loop"
    /\ UNCHANGED <<k_iterations, curr_hypothesis, iteration_likelihoods, iteration_order,
                   overall_likelihoods, discovery, normVars, shVars, hgrVars>>

\* line 1198: the loop condition fails
MonroeLoopEnd ==
    /\ monroePc = "loop"
    /\ curr_iteration > k_iterations
    /\ monroePc' = "final"
    /\ UNCHANGED <<curr_iteration, k_iterations, curr_hypothesis, domain_file,
                   iteration_likelihoods, iteration_order, overall_likelihoods, discovery,
                   normVars, shVars, hgrVars>>

InitMonroe ==
    /\ monroePc = "loop"
    /\ curr_iteration = 1
    /\ k_iterations \in 1..MaxIterations
    /\ curr_hypothesis = ""
    /\ domain_file = Hyps
    /\ iteration_likelihoods = <<>> /\ iteration_order = <<>>
    /\ overall_likelihoods = <<>> /\ discovery = <<>>
    /\ normalizer = "compute_monroe" /\ results = <<>> /\ posteriors = <<>>
    /\ emitted = FALSE /\ exitStatus = -1
    /\ ShIdle
    /\ HgrIdle

NextMonroe ==
    MonroeStep4 \/ MonroeStep7 \/ MonroeStep8 \/ MonroeLoopEnd \/ WriteFinalResults

SpecMonroe == InitMonroe /\ [][NextMonroe]_vars

(***************************************************************************)
(* compute_posterior_partial.sh: the iteration loop and the final          *)
(* normalization.  The script runs under set -e (line 17): a command that  *)
(* fails outside a condition ends the script at once, before the test of   *)
(* $? on the next line.  How the external programs end is an input.        *)
(***************************************************************************)
\* lines 100-200, steps 1 to 4: the domain of the iteration is parsed and
\* grounded and the observation-enforcing problem is solved
ShPlanObservation ==
    /\ shPc = "plan"
    /\ shPc' \in {"extract", "exit_fail"}
    /\ UNCHANGED <<iteration, K_ITERATIONS, SELECTED_HYPOTHESIS, LIKELIHOODS_FILE,
                   toolStatus, normVars, monroeVars, hgrVars>>

\* lines 210-219, step 5: a hypothesis that no earlier iteration has removed
\* from the domain, or none
ShExtractHypothesis ==
    /\ shPc = "extract"
    /\ \/ /\ SELECTED_HYPOTHESIS' \in
                Hyps \ { LIKELIHOODS_FILE[i].name : i \in 1..Len(LIKELIHOODS_FILE) }
          /\ shPc' = "baseline"
       \/ /\ shPc' = "exit_fail"
          /\ UNCHANGED SELECTED_HYPOTHESIS
    /\ UNCHANGED <<iteration, K_ITERATIONS, LIKELIHOODS_FILE, toolStatus, normVars,
                   monroeVars, hgrVars>>

\* lines 229-302, steps 6 and 7: the baseline problem is written, parsed,
\* grounded and solved.  A failing planner at line 284 ends the script: the
\* branch of lines 286-300 is never entered
ShBaseline ==
    /\ shPc = "baseline"
    /\ \/ /\ toolStatus' = Append(toolStatus, [baseline |-> "ok", likelihood |-> "none"])
          /\ shPc' = "likelihood"
       \/ /\ toolStatus' =
                Append(toolStatus, [baseline |-> "failed", likelihood |-> "none"])
          /\ shPc' = "exit_fail"
    /\ UNCHANGED <<iteration, K_ITERATIONS, SELECTED_HYPOTHESIS, LIKELIHOODS_FILE,
                   normVars, monroeVars, hgrVars>>

\* lines 320-355, step 8.  The status tested at line 327 is the one of tee, so
\* the branch of lines 342-348 is never entered; when the output of
\* compute_normalized_likelihood has no likelihood line, LIKELIHOOD is empty and
\* becomes "0.0" (lines 333-335); without the program the line written is
\* "0.0" too (line 354)
ShLikelihood ==
    /\ shPc = "likelihood"
    /\ \E status \in {"ok", "failed", "missing"} :
          \E printed \in Likelihoods :
             LET LIKELIHOOD == IF status = "ok" THEN printed ELSE 0
             IN  /\ LIKELIHOODS_FILE' =
                       Append(LIKELIHOODS_FILE,
                              [name |-> SELECTED_HYPOTHESIS, likelihood |-> LIKELIHOOD])
                 /\ toolStatus' =
                       [toolStatus EXCEPT ![Len(toolStatus)].likelihood = status]
    /\ shPc' = "reduce"
    /\ UNCHANGED <<iteration, K_ITERATIONS, SELECTED_HYPOTHESIS, normVars, monroeVars,
                   hgrVars>>

\* lines 365-379, step 9, and the next turn of the loop of line 100
ShReduceDomain ==
    /\ shPc = "reduce"
    /\ \/ /\ iteration < K_ITERATIONS
          /\ iteration' = iteration + 1
          /\ shPc' = "plan"
       \/ /\ iteration >= K_ITERATIONS
          /\ shPc' = "normalize"
          /\ UNCHANGED iteration
       \/ /\ shPc' = "exit_fail"
          /\ UNCHANGED iteration
    /\ UNCHANGED <<K_ITERATIONS, SELECTED_HYPOTHESIS, LIKELIHOODS_FILE, toolStatus,
                   normVars, monroeVars, hgrVars>>

\* lines 392-400: compute_posterior is started on the likelihoods file
ShNormalize ==
    /\ shPc = "normalize"
    /\ \/ /\ normalizer' = "compute_posterior"
          /\ results' = LIKELIHOODS_FILE
          /\ shPc' = "normalizing"
       \/ /\ shPc' = "exit_fail"
          /\ UNCHANGED <<normalizer, results>>
    /\ UNCHANGED <<posteriors, emitted, exitStatus, iteration, K_ITERATIONS,
                   SELECTED_HYPOTHESIS, LIKELIHOODS_FILE, toolStatus, monroeVars, hgrVars>>

\* lines 400-478: compute_posterior has ended; the script ends with it when
\* it failed and prints both views otherwise
ShReport ==
    /\ shPc = "normalizing"
    /\ exitStatus # -1
    /\ shPc' = IF exitStatus = 0 THEN "exit_0" ELSE "exit_fail"
    /\ UNCHANGED <<iteration, K_ITERATIONS, SELECTED_HYPOTHESIS, LIKELIHOODS_FILE,
                   toolStatus, normVars, monroeVars, hgrVars>>

InitSh ==
    /\ shPc = "plan"
    /\ iteration = 1
    /\ K_ITERATIONS \in 1..MaxIterations
    /\ SELECTED_HYPOTHESIS = "" /\ LIKELIHOODS_FILE = <<>> /\ toolStatus = <<>>
    /\ NormIdle /\ MonroeIdle /\ HgrIdle

NextSh ==
    \/ ShPlanObservation \/ ShExtractHypothesis \/ ShBaseline \/ ShLikelihood
    \/ ShReduceDomain \/ ShNormalize \/ ComputePosterior \/ ShReport

SpecSh == InitSh /\ [][NextSh]_vars

(***************************************************************************)
(* Properties of Stage II  (SpecStage2, SpecApply)                         *)
(***************************************************************************)
PrecSet(h, a) == { h.precLists[a][i] : i \in 0..(h.numPrecs[a] - 1) }
DelSet(h, a)  == { h.delLists[a][i] : i \in 0..(h.numDels[a] - 1) }
AddSet(h, a)  == { h.addLists[a][i] : i \in 0..(h.numAdds[a] - 1) }
S0Set(h)      == { h.s0List[i] : i \in 0..(h.s0Size - 1) }

\* the state obtained by applying p[1..k] to the initial state
RECURSIVE StateAfter(_, _, _)
StateAfter(h, p, k) ==
    IF k = 0 THEN S0Set(h)
    ELSE (StateAfter(h, p, k - 1) \ DelSet(h, p[k])) \cup AddSet(h, p[k])

\* the plan's actions that none of the first k steps has executed
PendingAt(p, k) == Range(p) \ { p[i] : i \in 1..k }

\* A_t for t = k (0-based): pending, no pending predecessor, preconditions
\* contained in the state after the first k steps
AvailAt(h, p, ord, k) ==
    { a \in PendingAt(p, k) :
        /\ ~ \E b \in PendingAt(p, k) : <<b, a>> \in ord
        /\ PrecSet(h, a) \subseteq StateAfter(h, p, k) }

Max(a, b) == IF a >= b THEN a ELSE b

\* the product of max(|A_t|, 1) over the steps t = 0 .. k-1
RECURSIVE ProdAvail(_, _, _, _)
ProdAvail(h, p, ord, k) ==
    IF k = 0 THEN 1
    ELSE ProdAvail(h, p, ord, k - 1) * Max(Cardinality(AvailAt(h, p, ord, k - 1)), 1)

\* C1: computeStage2Probability returns the product over the plan steps t of
\* 1/max(|A_t|, 1), A_t being the remaining actions with no remaining
\* predecessor whose preconditions hold in the state reached by plan[0..t-1];
\* a step with an empty A_t contributes the factor 1.
C1_Stage2IsProduct ==
    pc = "s2_done" =>
        stage2_prob = <<1, ProdAvail(htn, plan, orderingConstraints, Len(plan))>>

\* a finished run with a step whose available set is empty and a step where
\* two or more actions are available
C1_Witness ==
    /\ pc = "s2_done"
    /\ \E k \in 0..(Len(plan) - 1) : AvailAt(htn, plan, orderingConstraints, k) = {}
    /\ \E k \in 0..(Len(plan) - 1) :
          Cardinality(AvailAt(htn, plan, orderingConstraints, k)) >= 2
    /\ stage2_prob # ROne

\* C2: at every step the plan's next action is in remaining before the step,
\* and in executed and no longer in remaining after it, for every plan.
C2_NextActionMoves ==
    [][ (pc = "s2_loop" /\ t < Len(plan)) =>
            /\ plan[t + 1] \in remaining
            /\ plan[t + 1] \in executed'
            /\ plan[t + 1] \notin remaining' ]_vars

\* C3: applying an action yields (state \ del) \cup add, and a proposition
\* that the action both deletes and adds is true afterwards.
C3_DeleteThenAdd ==
    [][ (pc = "s2_loop" /\ t < Len(plan)) =>
            LET a == plan[t + 1]
            IN  /\ currentState' = (currentState \ DelSet(htn, a)) \cup AddSet(htn, a)
                /\ \A q \in DelSet(htn, a) \cap AddSet(htn, a) : q \in currentState' ]_vars

\* action 2 has been applied to a state holding a proposition that it both
\* deletes and adds, and a proposition that it only deletes
C3_Witness ==
    /\ pc = "s2_loop" /\ t = 1 /\ plan[1] = 2
    /\ \E q \in S0Set(htn) : q \in DelSet(htn, 2) /\ q \in AddSet(htn, 2) /\ q \in currentState
    /\ \E q \in S0Set(htn) : q \in DelSet(htn, 2) /\ q \notin AddSet(htn, 2)

(***************************************************************************)
(* Properties of the ordering-constraint resolver  (SpecOrd)               *)
(***************************************************************************)
\* the pair number k that method m declares, as task identifiers
DeclaredPair(h, m, k) ==
    << h.subTasks[m][h.ordering[m][2 * k]], h.subTasks[m][h.ordering[m][2 * k + 1]] >>

NumPairs(h, m) == h.numOrderings[m] \div 2

IsIncluded(m) == methodFilter.isNull \/ m \in methodFilter.ids

\* C4: the returned relation is transitively closed and holds every pair
\* declared by an included method.
C4_TransitivelyClosed ==
    pc = "ord_done" =>
        /\ \A p1 \in orderings, p2 \in orderings :
              p1[2] = p2[1] => <<p1[1], p2[2]>> \in orderings
        /\ \A m \in Methods(htn) : IsIncluded(m) =>
              \A k \in 0..(NumPairs(htn, m) - 1) : DeclaredPair(htn, m, k) \in orderings

\* a returned relation over a declared chain a, b, c, d whose pair (a,d) can
\* only be found by a second pass
C4_Witness ==
    /\ pc = "ord_done"
    /\ \E a \in 0..4, b \in 0..4, c \in 0..4, d \in 0..4 :
          /\ Cardinality({a, b, c, d}) = 4
          /\ {<<a, b>>, <<b, c>>, <<c, d>>} \subseteq DeclaredPairs(htn, methodFilter)
          /\ {<<a, c>>, <<b, d>>, <<a, d>>} \cap DeclaredPairs(htn, methodFilter) = {}
          /\ <<a, d>> \in orderings

\* the ordering pairs of method m, as pairs of subtask indices, contain no cycle
IndexPairs(h, m) ==
    { << h.ordering[m][2 * k], h.ordering[m][2 * k + 1] >> : k \in 0..(NumPairs(h, m) - 1) }

RECURSIVE Reach(_, _)
Reach(R, S) ==
    LET N == S \cup { pr[2] : pr \in { q \in R : q[1] \in S } }
    IN  IF N = S THEN S ELSE Reach(R, N)

Acyclic(R) == \A pr \in R : pr[1] \notin Reach(R, {pr[2]})

\* C6: when the ordering pairs of every used method are acyclic over the
\* method's subtask indices, the returned relation has no pair (a,a).
C6_NoSelfPairs ==
    (pc = "ord_done" /\ \A m \in Methods(htn) : IsIncluded(m) => Acyclic(IndexPairs(htn, m)))
        => \A pr \in orderings : pr[1] # pr[2]

\* C7: both components of every returned pair are primitive-action identifiers.
C7_PairsOverActions ==
    pc = "ord_done" =>
        \A pr \in orderings : pr[1] < htn.numActions /\ pr[2] < htn.numActions

\* C8: running the closure on the returned relation a second time yields the
\* same set.
C8_ClosureIdempotent ==
    pc = "ord_done" => ClosureLoop(orderings) = orderings

\* a returned relation that the closure loop had to extend
C8_Witness ==
    /\ pc = "ord_done"
    /\ orderings # DeclaredPairs(htn, methodFilter)
    /\ Cardinality(orderings) >= 6

(***************************************************************************)
(* Properties of Stage I  (SpecStage1)                                     *)
(***************************************************************************)
\* the product of the counts of the keys in S, counts 0 left out
RECURSIVE ProdOfCounts(_, _)
ProdOfCounts(m, S) ==
    IF S = {} THEN 1
    ELSE LET n == CHOOSE x \in S : TRUE
         IN  (IF m[n] = 0 THEN 1 ELSE m[n]) * ProdOfCounts(m, S \ {n})

\* C9: computeStage1Probability returns 1/(m1*...*mk) over the entries with a
\* count of at least 1, a value in (0,1]; entries with count 0 contribute
\* nothing and an empty map yields 1.
C9_Stage1IsProduct ==
    pc = "s1_done" =>
        /\ stage1_prob = <<1, ProdOfCounts(taskMethodCounts, DOMAIN taskMethodCounts)>>
        /\ 0 < stage1_prob[1] /\ stage1_prob[1] <= stage1_prob[2]
        /\ (DOMAIN taskMethodCounts = {} => stage1_prob = ROne)

\* a finished run over a map with an entry of count 0 and two entries of
\* count 2 or more
C9_Witness ==
    /\ pc = "s1_done"
    /\ \E n \in DOMAIN taskMethodCounts : taskMethodCounts[n] = 0
    /\ \E n1 \in DOMAIN taskMethodCounts, n2 \in DOMAIN taskMethodCounts :
          n1 # n2 /\ taskMethodCounts[n1] >= 2 /\ taskMethodCounts[n2] >= 2
    /\ numCompoundTasks = 2

(***************************************************************************)
(* Properties of Stage III  (SpecStage3)                                   *)
(***************************************************************************)
IsPrefixOfPlan(obs, p) ==
    /\ Len(obs) <= Len(p)
    /\ \A i \in 1..Len(obs) : obs[i] = p[i]

\* C10: under full observability the result is 1/(|plan|+1) when the
\* observations equal the plan prefix of the same length, and 0 otherwise.
C10_FullObservability ==
    (pc = "s3_done" /\ fullObservability) =>
        stage3_prob = IF IsPrefixOfPlan(observations, plan)
                      THEN <<1, Len(plan) + 1>>
                      ELSE RZero

\* a finished run whose observations are a proper, non-empty prefix of the plan
C10_Witness ==
    /\ pc = "s3_done" /\ fullObservability
    /\ IsPrefixOfPlan(observations, plan)
    /\ 0 < Len(observations) /\ Len(observations) < Len(plan)
    /\ stage3_prob = <<1, Len(plan) + 1>>

(***************************************************************************)
(* Properties of main  (Spec)                                              *)
(***************************************************************************)
\* the methods selected in the decomposition trace of one log
OwnMethods(log) == ParseDecompositionTreeFromLog(htn, log, {}).used

\* C5: the ordering relation used for Stage II of a plan holds only pairs
\* derivable by chaining ordering pairs of methods selected in that plan's
\* own decomposition trace.
C5_OnlyOwnMethods ==
    /\ mainPc = "obs_stage2" =>
          orderingConstraints \subseteq
              ExtractOrderingConstraints(htn, Filter(OwnMethods(obsLog)))
    /\ mainPc = "base_stage2" =>
          orderingConstraints \subseteq
              ExtractOrderingConstraints(htn, Filter(OwnMethods(baseLog)))

(***************************************************************************)
(* Properties of Stage III under partial observability  (SpecStage3)       *)
(***************************************************************************)
\* the table of the recurrence dp[0][0] = 1, dp[0][j] = dp[0][j-1] * (1 - p),
\* dp[i][j] = (obs[i] = prefix[j] ? dp[i-1][j-1] * p : 0) + dp[i][j-1] * (1 - p),
\* where a cell left of the diagonal is 0
RecurrenceTable(obs, prefix, p) ==
    LET tab[i \in 0..Len(obs), j \in 0..Len(prefix)] ==
            IF i = 0 THEN (IF j = 0 THEN ROne ELSE RMul(tab[0, j - 1], OneMinus(p)))
            ELSE IF j < i THEN RZero
            ELSE RAdd(IF obs[i] = prefix[j] THEN RMul(tab[i - 1, j - 1], p) ELSE RZero,
                      RMul(tab[i, j - 1], OneMinus(p)))
    IN  tab

\* the sum over the prefix lengths n in lo..hi of dp[|obs|][n] / (|plan| + 1)
RECURSIVE SumOverPrefixes(_, _, _, _, _)
SumOverPrefixes(obs, p, detect, lo, hi) ==
    IF lo > hi THEN RZero
    ELSE RAdd(SumOverPrefixes(obs, p, detect, lo, hi - 1),
              RMul(RecurrenceTable(obs, SubSeq(p, 1, hi), detect)[Len(obs), hi],
                   <<1, Len(p) + 1>>))

\* C11: under partial observability the result is the sum over the prefix
\* lengths n from |observations| to |plan| of dp[|obs|][n] * 1/(|plan|+1), with
\* dp the table of the recurrence on the plan prefix of length n; it is 0 when
\* there are more observations than plan actions.
C11_PartialObservability ==
    (pc = "s3_done" /\ ~fullObservability) =>
        /\ stage3_prob = SumOverPrefixes(observations, plan, pDet,
                                         Len(observations), Len(plan))
        /\ Len(observations) > Len(plan) => stage3_prob = RZero

\* a finished run that summed more than one prefix length, with an observation
\* that is both matched and skipped, and a detection probability inside (0, 1)
C11_Witness ==
    /\ pc = "s3_done" /\ ~fullObservability
    /\ pDet = <<1, 2>>
    /\ 0 < Len(observations) /\ Len(observations) + 2 <= Len(plan)
    /\ plan[1] = observations[1] /\ plan[2] = observations[1]
    /\ stage3_prob # RZero

RLeq(x, y) == x[1] * y[2] <= y[1] * x[2]

RECURSIVE RPow(_, _)
RPow(x, n) == IF n = 0 THEN ROne ELSE RMul(x, RPow(x, n - 1))

\* the plan prefix on which the table in dp was computed
TablePrefix == SubSeq(plan, 1, prefixLen - 1)

DiagonalCells == 0..Min(Len(observations), Len(TablePrefix))

\* C12 as stated: every diagonal cell dp[i][i] of the table is at least pDet^i.
C12_DiagonalLowerBound ==
    (pc = "s3_loop" /\ dp # <<>>) =>
        \A i \in DiagonalCells : RLeq(RPow(pDet, i), dp[i, i])

\* C12, amended: a diagonal cell dp[i][i] is pDet^i when the first i
\* observations equal the first i plan actions, and 0 otherwise.
C12_DiagonalExact ==
    (pc = "s3_loop" /\ dp # <<>>) =>
        \A i \in DiagonalCells :
            dp[i, i] = IF \A k \in 1..i : observations[k] = TablePrefix[k]
                       THEN RPow(pDet, i)
                       ELSE RZero

\* a table with two diagonal cells below the first: one on matching
\* observations and one after a mismatch, for a detection probability in (0, 1)
C12_Witness ==
    /\ pc = "s3_loop" /\ dp # <<>>
    /\ pDet = DefaultPDet
    /\ Len(observations) = 2 /\ Len(TablePrefix) >= 2
    /\ observations[1] = TablePrefix[1] /\ observations[2] # TablePrefix[2]
    /\ dp[1, 1] = <<9, 10>> /\ dp[2, 2] = RZero

(***************************************************************************)
(* Properties of the likelihood combiner  (Spec)                           *)
(***************************************************************************)
\* the three stage values of a plan, computed from the inputs of the stages
Stage1Of(counts) == <<1, ProdOfCounts(counts, DOMAIN counts)>>

Stage2Of(h, p, ord) == <<1, ProdAvail(h, p, ord, Len(p))>>

Stage3Of(obs, p) ==
    IF fullObservability
    THEN (IF IsPrefixOfPlan(obs, p) THEN <<1, Len(p) + 1>> ELSE RZero)
    ELSE SumOverPrefixes(obs, p, pDet, Len(obs), Len(p))

NumeratorOf ==
    RMul(RMul(Stage1Of(obsTaskMethodCounts),
              Stage2Of(htn, obsPlan, orderingConstraints)),
         Stage3Of(observations, obsPlan))

DenominatorOf ==
    RMul(Stage1Of(baseTaskMethodCounts), Stage2Of(htn, basePlan, orderingConstraints))

\* one task with two methods, a one-action plan whose action has no
\* precondition and no effect, that action observed, full observability
TwoMethodScenario ==
    /\ fullObservability
    /\ \E n \in DOMAIN obsTaskMethodCounts :
          DOMAIN obsTaskMethodCounts = {n} /\ obsTaskMethodCounts[n] = 2
    /\ Len(obsPlan) = 1 /\ observations = obsPlan
    /\ PrecSet(htn, obsPlan[1]) = {}
    /\ DelSet(htn, obsPlan[1]) = {} /\ AddSet(htn, obsPlan[1]) = {}

\* C13: the reported normalized likelihood is stage1 * stage2 * stage3 of the
\* observation plan divided by stage1 * stage2 of the baseline plan; in the
\* two-method scenario the numerator is 1/4, and an equal numerator and
\* denominator give exactly 1.
C13_NormalizedLikelihood ==
    mainPc = "exit_0" =>
        /\ scores.numerator = NumeratorOf
        /\ scores.denominator = DenominatorOf
        /\ scores.normalized_likelihood[2] > 0
        /\ scores.normalized_likelihood[1] * NumeratorOf[2] * DenominatorOf[1]
              = scores.normalized_likelihood[2] * NumeratorOf[1] * DenominatorOf[2]
        /\ TwoMethodScenario => scores.numerator = <<1, 4>>
        /\ scores.numerator = scores.denominator => scores.normalized_likelihood = ROne

\* a finished run of the two-method scenario whose baseline plan is longer than
\* the observation plan and whose denominator equals the numerator 1/4
C13_Witness ==
    /\ mainPc = "exit_0"
    /\ TwoMethodScenario
    /\ Len(basePlan) > Len(obsPlan)
    /\ scores.numerator = <<1, 4>> /\ scores.denominator = <<1, 4>>
    /\ scores.normalized_likelihood = ROne

\* a finished run under partial observability whose normalized likelihood is
\* neither 0 nor 1
C13_WitnessPartial ==
    /\ mainPc = "exit_0" /\ ~fullObservability
    /\ scores.obs_stage3 # RZero
    /\ scores.normalized_likelihood \notin {RZero, ROne}

(***************************************************************************)
(* Properties of the likelihood combiner on given stage values             *)
(* (SpecCombine)                                                           *)
(***************************************************************************)
\* C14: when the denominator is 0 the combiner ends in the error outcome and
\* reports no normalized likelihood: a run that ends with exit status 0, which
\* has reported a value, has a denominator other than 0.
C14_ZeroDenominatorIsError ==
    (mainPc \in {"exit_0", "exit_1"} /\ scores.denominator = RZero) =>
        mainPc = "exit_1"

(***************************************************************************)
(* Properties of the posterior normalizers  (SpecNormalize)                *)
(***************************************************************************)
\* the likelihood set a normalizer works on
InputEntries ==
    CASE normalizer = "compute_posterior_probabilities" ->
            SelectSeq(results, LAMBDA r : r.likelihood >= 0)
      [] normalizer = "compute_monroe" -> MapEntries(iteration_likelihoods)
      [] OTHER -> results

\* C15: for every non-empty likelihood set that a normalizer accepts (it ends
\* with status 0), the posteriors it outputs sum to 1 and each is the
\* likelihood divided by the sum of all likelihoods.
C15_PosteriorsSumToOne ==
    (exitStatus = 0 /\ InputEntries # <<>>) =>
        /\ emitted
        /\ SumPosteriors(posteriors) = ROne
        /\ \A i \in 1..Len(posteriors) :
              posteriors[i].posterior[1] * SumLikelihoods(InputEntries)
                  = posteriors[i].likelihood * posteriors[i].posterior[2]

\* C16: when the likelihoods add up to 0, normalization ends in a fatal error
\* and emits no posterior for any hypothesis, neither uniform nor all zero.
C16_ZeroSumIsFatal ==
    (exitStatus # -1 /\ InputEntries # <<>> /\ SumLikelihoods(InputEntries) = 0) =>
        (exitStatus = 1 /\ ~emitted)

\* C17: a ranked posterior table is in descending order of posterior, and
\* hypotheses with equal posteriors are in ascending order of identifier.
C17_RankedOrder ==
    (normalizer \in {"compute_posterior", "compute_monroe"} /\ emitted) =>
        \A i, j \in 1..Len(posteriors) :
            i < j =>
                /\ ~ RLess(posteriors[i].posterior, posteriors[j].posterior)
                /\ posteriors[i].posterior = posteriors[j].posterior =>
                      HypRank(posteriors[i].name) <= HypRank(posteriors[j].name)

(***************************************************************************)
(* Properties of the result views of compute_monroe  (SpecMonroe)          *)
(***************************************************************************)
NamesOf(rs) == { rs[i].name : i \in 1..Len(rs) }

\* C18: after any sequence of scored iterations the discovery-order view lists
\* exactly the hypotheses of the ranked view, each once, in the order in which
\* they were scored and each with the likelihood computed for it; writing the
\* ranked view leaves the discovery order as it was.
C18_DiscoveryView ==
    monroePc = "done" =>
        /\ NamesOf(discovery) = NamesOf(posteriors)
        /\ \A i, j \in 1..Len(discovery) : discovery[i].name = discovery[j].name => i = j
        /\ discovery = overall_likelihoods
        /\ iteration_order = [i \in 1..Len(discovery) |-> discovery[i].name]

(***************************************************************************)
(* Properties of the iteration loop of compute_posterior_partial.sh        *)
(* (SpecSh)                                                                *)
(***************************************************************************)
\* the scoring of the hypothesis of iteration k failed
ScoringFailed(k) ==
    \/ toolStatus[k].baseline = "failed"
    \/ toolStatus[k].likelihood \in {"failed", "missing"}

\* the lines of the likelihoods file that come from a successful scoring
ScoredLines ==
    LET ok == { k \in 1..Len(LIKELIHOODS_FILE) : ~ ScoringFailed(k) }
        F[k \in 0..Len(LIKELIHOODS_FILE)] ==
            IF k = 0 THEN <<>>
            ELSE IF k \in ok THEN Append(F[k - 1], LIKELIHOODS_FILE[k]) ELSE F[k - 1]
    IN  F[Len(LIKELIHOODS_FILE)]

\* C19: a failed scoring in iteration i does not end the run: the script does
\* not stop at the failure, and the final normalization works on the
\* hypotheses that were scored successfully.
C19_FailureIsolated ==
    /\ shPc = "exit_fail" =>
          ~ (toolStatus # <<>> /\ ScoringFailed(Len(toolStatus))
                /\ Len(toolStatus) = iteration /\ normalizer = "none")
    /\ shPc \in {"normalizing", "exit_0", "exit_fail"} /\ normalizer = "compute_posterior" =>
          results = ScoredLines

\* C20: a hypothesis whose scoring failed is not in the likelihoods file with
\* the numeric likelihood 0, and so is not normalized as a zero likelihood.
C20_NoSilentZero ==
    \A k \in 1..Len(LIKELIHOODS_FILE) :
        ScoringFailed(k) => LIKELIHOODS_FILE[k].likelihood # 0

(***************************************************************************)
(* C21                                                                     *)
(***************************************************************************)
\* pat occurs somewhere in the string s
Occurs(pat, s) ==
    \E j \in 1..(Len(s) - Len(pat) + 1) : SubSeq(s, j, j + Len(pat) - 1) = pat

\* some line of the file carries the marker that opens the plan section
HasPlanSection(file) == \E i \in 1..Len(file) : Occurs("==>", file[i])

\* C21: when the observation log or the baseline log has no plan section, main
\* never gets past the parse of that log: it is still reading or has returned 1,
\* and no stage value, numerator, denominator or normalized likelihood exists.
C21_NoPlanSectionIsError ==
    /\ ~HasPlanSection(observationLogFile) =>
          /\ mainPc \in {"call_parse_obs_plan", "exit_1"}
          /\ scores = NoScores
    /\ ~HasPlanSection(baselineLogFile) =>
          /\ mainPc \in {"call_parse_obs_plan", "call_parse_base_plan", "exit_1"}
          /\ scores = NoScores

\* main has returned 1 on an observation log that has plan lines but no marker
C21_Witness ==
    /\ mainPc = "exit_1"
    /\ ~HasPlanSection(observationLogFile)
    /\ \E i \in 1..Len(observationLogFile) : observationLogFile[i] \in PlanLines
    /\ HasPlanSection(baselineLogFile)

(***************************************************************************)
(* C22                                                                     *)
(***************************************************************************)
\* two characters that are equal or are the two cases of one letter
SameLetter(c, d) ==
    \/ c = d
    \/ \E k \in 1..26 :
          {c, d} = { SubSeq("ABCDEFGHIJKLMNOPQRSTUVWXYZ", k, k),
                     SubSeq("abcdefghijklmnopqrstuvwxyz", k, k) }

EqualIgnoringCase(a, b) ==
    /\ Len(a) = Len(b)
    /\ \A k \in 1..Len(a) : SameLetter(SubSeq(a, k, k), SubSeq(b, k, k))

\* the tasks a token names: those with exactly that name, and only when there
\* is none, those whose name differs from it in case only
Matches(h, token) ==
    LET exact == { i \in Tasks(h) : h.taskNames[i] = token }
    IN  IF exact # {} THEN exact
        ELSE { i \in Tasks(h) : EqualIgnoringCase(h.taskNames[i], token) }

\* resolved is the subsequence of tokens that name a primitive action
IsResolutionOf(resolved, tokens) ==
    LET kept == { i \in 1..Len(tokens) : Matches(htn, tokens[i]) \cap Actions(htn) # {} }
        rank(i) == Cardinality({ j \in kept : j <= i })
    IN  /\ Len(resolved) = Cardinality(kept)
        /\ \A i \in kept : resolved[rank(i)] \in Matches(htn, tokens[i])

\* C22: once a log has yielded plan tokens, the resolved plan is the
\* order-preserving subsequence of the tokens that name a primitive action
\* (exact name first, name up to case otherwise); main returns 1 only when a
\* log yields no token at all, never because a token does not resolve.
C22_ResolvedSubsequence ==
    /\ obsLog.plan # <<>> => IsResolutionOf(obsPlan, obsLog.plan)
    /\ baseLog.plan # <<>> => IsResolutionOf(basePlan, baseLog.plan)
    /\ mainPc = "exit_1" => (obsLog.plan = <<>> \/ baseLog.plan = <<>>)

\* scoring has ended on an observation log with a token kept by exact name, or
\* by lower-cased name only, next to a token that was dropped
C22_Witness ==
    /\ mainPc = "exit_0"
    /\ Len(obsLog.plan) = 2 /\ Len(obsPlan) = 1
    /\ \E i \in 1..2 : obsLog.plan[i] \in {"A0", "A1"}

(***************************************************************************)
(* C23                                                                     *)
(***************************************************************************)
\* the lines of the decomposition tree: after the first line with the root
\* marker and before the first end marker that follows it
SectionLines(file) ==
    LET isRoot(i) == Occurs("root 0", file[i])
        isEnd(i) == Occurs("<==", file[i]) /\ ~isRoot(i)
                    /\ \E r \in 1..(i - 1) : isRoot(r)
    IN  { i \in 1..Len(file) :
            /\ ~isRoot(i)
            /\ \E r \in 1..(i - 1) : isRoot(r)
            /\ \A e \in 1..i : ~isEnd(e) }

\* the pair <<task name, method name>> of a record "id task -> method ...":
\* the task name lies between the first space and the first " -> ", the method
\* name runs from the arrow to the next space or the end of the line
RecordsOf(line) ==
    LET spaces == { k \in 1..Len(line) : SubSeq(line, k, k) = " " }
        arrows == { k \in spaces : k + 3 <= Len(line) /\ SubSeq(line, k, k + 3) = " -> " }
        first(S) == CHOOSE k \in S : \A j \in S : k <= j
        a == first(spaces)
        b == first(arrows)
        after == { k \in spaces : k >= b + 4 }
        e == IF after = {} THEN Len(line) ELSE first(after) - 1
    IN  IF arrows = {} \/ b <= a THEN {}
        ELSE { << SubSeq(line, a + 1, b - 1), SubSeq(line, b + 4, e) >> }

\* the records of the decomposition tree of a file
SectionRecords(file) == UNION { RecordsOf(file[i]) : i \in SectionLines(file) }

IsPseudoName(name) ==
    \/ Len(name) >= 5 /\ SubSeq(name, 1, 5) = "<abs>"
    \/ Len(name) >= 21 /\ SubSeq(name, 1, 21) = "__method_precondition"

MethodsOfTask(h, task) == { m \in Methods(h) : h.decomposedTask[m] = task }

\* every entry of counts comes from a record of the file's tree whose task
\* name is no pseudo-record and resolves to a task with methods, and its value
\* is the number of methods of that task
EntriesJustified(counts, file) ==
    \A name \in DOMAIN counts :
        /\ \E rec \in SectionRecords(file) : rec[1] = name
        /\ ~IsPseudoName(name)
        /\ \E task \in Matches(htn, name) :
              /\ MethodsOfTask(htn, task) # {}
              /\ counts[name] = Cardinality(MethodsOfTask(htn, task))

\* C23: the map extracted from a log has an entry only for a task name of a
\* record of the log's decomposition tree that is no pseudo-record and resolves
\* to a task with methods, the value being that task's number of methods; a
\* method is recorded as used only when a record names it as a method of the
\* record's task.
C23_DecompositionTrace ==
    /\ EntriesJustified(treeCounts, LogFile)
    /\ EntriesJustified(obsTaskMethodCounts, observationLogFile)
    /\ EntriesJustified(baseTaskMethodCounts, baselineLogFile)
    /\ \A m \in usedMethodIds :
          \E rec \in SectionRecords(observationLogFile)
                       \cup SectionRecords(baselineLogFile) :
              /\ rec[2] = htn.methodNames[m]
              /\ htn.decomposedTask[m] \in Matches(htn, rec[1])
              /\ ~IsPseudoName(rec[1])

\* both traces are extracted; the observation tree holds a pseudo-record, a
\* record of a primitive action, and a record of t4 with a method of another task
C23_Witness ==
    /\ mainPc = "extract"
    /\ DOMAIN obsTaskMethodCounts = {"t4"} /\ obsTaskMethodCounts["t4"] = 4
    /\ usedMethodIds = {0}
    /\ \E i \in SectionLines(observationLogFile) :
          observationLogFile[i] \in { "4 __method_precondition_m0 -> m0", "5 a0 -> m0" }

(***************************************************************************)
(* C24                                                                     *)
(***************************************************************************)
\* a step of a Stage II run leaves the model, the plan and the ordering
\* relation as they are
Stage2KeepsInputs ==
    pc \in {"s2_begin", "s2_loop"} =>
        (htn' = htn /\ plan' = plan /\ orderingConstraints' = orderingConstraints)

\* C24: a Stage II run changes neither the model (initial state, precondition,
\* add and delete lists) nor the plan nor the ordering relation; its private
\* state starts as the model's initial state; and the baseline plan's Stage II
\* value in main is the value of a run on the baseline plan alone, although
\* the observation plan was scored before it.
C24_Stage2RunIsPrivate ==
    /\ [][Stage2KeepsInputs]_vars
    /\ [](pc = "s2_loop" /\ t = 0 => currentState = S0Set(htn))
    /\ [](mainPc = "exit_0" =>
              scores.base_stage2 = Stage2Of(htn, basePlan, orderingConstraints))

\* main has ended; the observation plan, scored first, deletes the initially
\* true proposition that the baseline plan's second action requires
C24_Witness ==
    /\ mainPc = "exit_0"
    /\ \E i \in 1..Len(obsPlan) : S0Set(htn) \cap DelSet(htn, obsPlan[i]) # {}
    /\ Len(basePlan) = 2
    /\ PrecSet(htn, basePlan[2]) \cap S0Set(htn) # {}

(***************************************************************************)
(* C25                                                                     *)
(***************************************************************************)
\* C25: for every set of used methods and every ordering list, also a cyclic
\* one, the closure loop of extractOrderingConstraints comes to a pass that
\* adds no pair, and the function returns.
C25_ClosureTerminates == <>(pc = "ord_done" /\ ~changed /\ NewPairs(orderings) = {})

\* the function has returned a relation with a cycle that it had to complete
C25_Witness ==
    /\ pc = "ord_done"
    /\ \E pr \in orderings : pr[1] = pr[2]
    /\ orderings # DeclaredPairs(htn, methodFilter)

(***************************************************************************)
(* C26                                                                     *)
(***************************************************************************)
\* C26: at every step of a Stage II run whose available set is not empty, the
\* plan's next action is a member of that available set.
C26_SelectedIsAvailable ==
    (pc = "s2_loop" /\ t < Len(plan)) =>
        LET availableActions ==
                AvailableActions(htn, orderingConstraints, remaining, currentState)
        IN  availableActions # {} => plan[t + 1] \in availableActions

\* the second step of the executable plan a0, a0, a2: a2 is available and the
\* plan's next action a0 is not
C26_RepeatedAction ==
    /\ pc = "s2_loop" /\ plan = <<0, 0, 2>> /\ t = 1
    /\ orderingConstraints = {}
    /\ IsApplicable(htn, InitialState(htn), 0)
    /\ IsApplicable(htn, currentState, 0)
    /\ AvailableActions(htn, orderingConstraints, remaining, currentState) = {2}

(***************************************************************************)
(* C27                                                                     *)
(***************************************************************************)
\* x is a number with 0 < x <= 1
InUnitInterval(x) == x[1] > 0 /\ x[2] > 0 /\ x[1] <= x[2]

\* C27: every value returned by Stage I and by Stage II is strictly positive
\* and at most 1, so when main has combined the scores the denominator
\* base_stage1 * base_stage2 is not 0 and the normalized likelihood is the
\* finite quotient numerator / denominator.
C27_DenominatorPositive ==
    /\ pc = "s1_done" => InUnitInterval(stage1_prob)
    /\ pc = "s2_done" => InUnitInterval(stage2_prob)
    /\ mainPc = "exit_0" =>
         /\ InUnitInterval(scores.base_stage1)
         /\ InUnitInterval(scores.base_stage2)
         /\ InUnitInterval(scores.denominator)
         /\ scores.normalized_likelihood[2] # 0
         /\ RMul(scores.normalized_likelihood, scores.denominator) = scores.numerator

\* main has combined the scores of a baseline plan a1, a1 whose second step
\* finds no available action (the count 0 is replaced by 1)
C27_Witness ==
    /\ mainPc = "exit_0"
    /\ basePlan = <<1, 1>>
    /\ scores.base_stage2 = ROne
    /\ InUnitInterval(scores.denominator)

(***************************************************************************)
(* C28                                                                     *)
(***************************************************************************)
\* the distinct identifiers of the first n elements of a plan
PlanIds(p, n) == { p[k] : k \in 1..n }

\* C28: throughout a Stage II run executed and remaining are disjoint and
\* their union is the set of the plan's distinct action identifiers (executed
\* holds those of the steps taken); after the last step remaining is empty.
C28_ExecutedRemainingPartition ==
    /\ pc = "s2_loop" =>
         /\ executed \cap remaining = {}
         /\ executed \cup remaining = PlanIds(plan, Len(plan))
         /\ executed = PlanIds(plan, t)
         /\ t = Len(plan) => remaining = {}
    /\ pc = "s2_done" =>
         /\ remaining = {}
         /\ executed = PlanIds(plan, Len(plan))

\* the run of a plan that repeats an action has taken its last step
C28_Witness ==
    /\ pc = "s2_done"
    /\ Len(plan) = 3 /\ plan[1] = plan[3] /\ plan[1] # plan[2]
    /\ Cardinality(executed) = 2

(***************************************************************************)
(* C29                                                                     *)
(***************************************************************************)
\* the task names of the records of a file's tree that are stored in the
\* count map: no pseudo-record, resolved to a task that has methods
CountedNames(h, file) ==
    { name \in { rec[1] : rec \in SectionRecords(file) } :
        /\ ~IsPseudoName(name)
        /\ \E task \in Matches(h, name) : MethodsOfTask(h, task) # {} }

\* the number of methods of the task a counted name resolves to
MethodsOfName(h, name) ==
    LET tasks == Matches(h, name)
        exact == { task \in tasks : h.taskNames[task] = name }
        pick(S) == CHOOSE x \in S : \A y \in S : x <= y
    IN  Cardinality(MethodsOfTask(h, IF exact # {} THEN pick(exact) ELSE pick(tasks)))

\* the product of one factor 1/m for every name of the set
RECURSIVE OneFactorEach(_, _)
OneFactorEach(h, names) ==
    IF names = {} THEN ROne
    ELSE LET name == CHOOSE x \in names : TRUE
         IN  RMul(Rat(1, MethodsOfName(h, name)), OneFactorEach(h, names \ {name}))

\* C29: the Stage I probability of a plan is the product of exactly one factor
\* 1/m for every distinct task name stored from the records of its trace,
\* however many records of the trace carry that name.
C29_OneFactorPerName ==
    mainPc = "exit_0" =>
        /\ scores.obs_stage1 = OneFactorEach(htn, CountedNames(htn, observationLogFile))
        /\ scores.base_stage1 = OneFactorEach(htn, CountedNames(htn, baselineLogFile))

\* main has ended; two records of the observation tree carry the name t3, a
\* task with two methods, and the Stage I probability is 1/2
C29_Witness ==
    /\ mainPc = "exit_0"
    /\ \E i, j \in SectionLines(observationLogFile) :
          /\ i # j
          /\ RecordsOf(observationLogFile[i]) = { <<"t3", "m0">> }
          /\ RecordsOf(observationLogFile[j]) = { <<"t3", "m0">> }
    /\ scores.obs_stage1 = <<1, 2>>

(***************************************************************************)
(* C30                                                                     *)
(***************************************************************************)
\* the step that prepares the observations takes the first numObservations
\* elements of the observation plan, all of them when the number is negative
\* or exceeds the plan's length
ObservationsArePrefix ==
    mainPc = "prepare_observations" =>
        /\ Len(observations') = IF numObservations \in 0..Len(obsPlan)
                                THEN numObservations ELSE Len(obsPlan)
        /\ \A i \in 1..Len(observations') : observations'[i] = obsPlan[i]
        /\ obsPlan' = obsPlan

\* C30: the observation sequence is the first num_obs elements of the
\* resolved observation plan (the whole plan when num_obs is negative or larger
\* than the plan), and under full observability the Stage III value of the
\* numerator is 1/(|observation plan| + 1), which is not 0.
C30_FullObsStage3 ==
    /\ [][ObservationsArePrefix]_vars
    /\ [](mainPc = "exit_0" /\ fullObservability =>
              /\ scores.obs_stage3 = Rat(1, Len(obsPlan) + 1)
              /\ scores.obs_stage3 # RZero
              /\ observations = SubSeq(obsPlan, 1, Len(observations)))

\* main has ended under full observability with one observation taken from an
\* observation plan of two actions
C30_Witness ==
    /\ mainPc = "exit_0" /\ fullObservability
    /\ Len(obsPlan) = 2 /\ Len(observations) = 1
    /\ scores.obs_stage3 = <<1, 3>>

====
